---- MODULE Spec2Model ----
(***************************************************************************)
(* A model of the hybrid retriever of src/src/rag/retriever.py:            *)
(* HybridRetriever keeps a document store, a metadata map, a dense index   *)
(* and the BM25 statistics (term frequencies, document lengths, IDF table, *)
(* average document length); add_documents fills them and retrieve fuses a *)
(* dense and a sparse ranking by Reciprocal Rank Fusion.  With it, a model *)
(* of the cost guard of src/src/governance/cost_guard.py: CostGuard keeps  *)
(* the usage records, validates estimates and sums up usage; of the audit  *)
(* logger of src/src/governance/audit_logger.py, which chains the events   *)
(* it stores by their hashes; of the de-duplication of PHI detections of   *)
(* src/src/governance/phi_detector.py; and of the embedding cache of       *)
(* src/src/rag/embeddings.py.                                              *)
(*                                                                         *)
(* Representation.  A Python dict that the code iterates is a sequence of  *)
(* <<key, value>> pairs in insertion order.  A text is the sequence of its *)
(* words.  A float that the code computes by a division is the exact       *)
(* fraction <<numerator, denominator>> in lowest terms; an IDF, which the  *)
(* code computes as np.log(x), is held as the fraction x (np.log is        *)
(* strictly increasing, so equality and order of IDFs are those of x).     *)
(***************************************************************************)
EXTENDS Integers, Sequences, FiniteSets, TLC

VARIABLES
    documents,        \* self._documents: id -> content
    metadata,         \* self._metadata: id -> metadata
    dense_index,      \* self._dense_index: id -> embedding
    idf,              \* self._idf: term -> IDF
    doc_lengths,      \* self._doc_lengths: id -> number of terms
    avg_doc_length,   \* self._avg_doc_length
    term_freqs,       \* self._term_freqs: id -> (term -> count)
    dense_weight,     \* self.dense_weight
    sparse_weight,    \* self.sparse_weight
    rrf_k,            \* self.rrf_k
    pc,               \* the caller: "idle" or "returned"
    call,             \* the arguments of the last call
    outcome,          \* how the last call ended: "none", "ok" or "KeyError"
    result,           \* what the last call returned
    threads,          \* the threads inside add_documents: where each is,
                      \* with its arguments and local variables
    obs,              \* what a concurrent retrieve has read
    cost_config,      \* CostGuard.config
    usage_records,    \* CostGuard._usage_records
    user_usage,       \* CostGuard._user_usage: user -> records
    total_cost_today, \* CostGuard._total_cost_today
    now,              \* the clock: datetime.utcnow()
    lock,             \* CostGuard._lock: the thread that holds it, or ""
    store_events,     \* InMemoryAuditStore._events
    buffer,           \* AuditLogger._buffer
    last_hash,        \* AuditLogger._last_hash
    enable_hash_chain,\* AuditLogger.enable_hash_chain
    cache,            \* EmbeddingService._cache: key -> embedding
    cache_embeddings  \* EmbeddingService.cache_embeddings

retriever == <<documents, metadata, dense_index, idf, doc_lengths,
               avg_doc_length, term_freqs>>
config == <<dense_weight, sparse_weight, rrf_k>>
vars == <<documents, metadata, dense_index, idf, doc_lengths,
          avg_doc_length, term_freqs, dense_weight, sparse_weight, rrf_k,
          pc, call, outcome, result, threads, obs, cost_config,
          usage_records, user_usage, total_cost_today, now, lock,
          store_events, buffer, last_hash, enable_hash_chain, cache,
          cache_embeddings>>
caller == <<pc, call, outcome, result>>
governance == <<cost_config, usage_records, user_usage, total_cost_today, now,
                lock>>
audit == <<store_events, buffer, last_hash, enable_hash_chain>>
embedder == <<cache, cache_embeddings>>
services == <<audit, embedder>>

----------------------------------------------------------------------------
(* Bounds of the model.                                                    *)

MaxBatch == 2

\* the longest candidate list handed to the fusion step
MaxList == 2

----------------------------------------------------------------------------
(* Exact fractions.                                                        *)

RECURSIVE GCD(_, _)
GCD(a, b) == IF b = 0 THEN a ELSE GCD(b, a % b)

Frac(n, d) == LET g == GCD(n, d) IN <<n \div g, d \div g>>

FracAdd(x, y) == Frac(x[1] * y[2] + y[1] * x[2], x[2] * y[2])

FracLess(x, y) == x[1] * y[2] < y[1] * x[2]

Min(m, n) == IF m <= n THEN m ELSE n

----------------------------------------------------------------------------
(* Python dicts in insertion order.                                        *)

DictKeys(d) == {d[i][1] : i \in DOMAIN d}

DictHas(d, k) == \E i \in DOMAIN d : d[i][1] = k

DictGet(d, k) == d[CHOOSE i \in DOMAIN d : d[i][1] = k][2]

DictSet(d, k, v) ==
    IF DictHas(d, k)
    THEN [i \in DOMAIN d |-> IF d[i][1] = k THEN <<k, v>> ELSE d[i]]
    ELSE Append(d, <<k, v>>)

DictValues(d) == [i \in DOMAIN d |-> d[i][2]]

RECURSIVE SeqSum(_)
SeqSum(s) == IF s = <<>> THEN 0 ELSE Head(s) + SeqSum(Tail(s))

----------------------------------------------------------------------------
(* Tokenization.  A text is given as its words (the matches of \b\w+\b);  *)
(* "Heart" is the one word of the model that is not in lower case.         *)

\* text.lower(), word by word
Lower(w) == IF w = "Heart" THEN "heart" ELSE w

stopwords ==
    {"the", "a", "an", "is", "are", "was", "were", "be", "been", "being",
     "have", "has", "had", "do", "does", "did", "will", "would", "could",
     "should", "may", "might", "must", "shall", "can", "of", "to", "in",
     "for", "on", "with", "at", "by", "from", "as", "into", "through",
     "during", "before", "after", "above", "below", "between", "under",
     "again", "further", "then", "once", "here", "there", "when", "where",
     "why", "how", "all", "each", "few", "more", "most", "other", "some",
     "such", "no", "nor", "not", "only", "own", "same", "so", "than", "too",
     "very", "just", "and", "but", "if", "or", "because", "until", "while",
     "this", "that", "these", "those"}

tokenize(text) ==
    LET tokens == [i \in DOMAIN text |-> Lower(text[i])]
    IN SelectSeq(tokens, LAMBDA t : t \notin stopwords /\ Len(t) > 2)

\* set(terms)
TermsOf(text) == LET terms == tokenize(text) IN {terms[j] : j \in DOMAIN terms}

----------------------------------------------------------------------------
(* The retriever's state as one value, and add_documents on it.            *)

EmptyRetriever ==
    [documents |-> <<>>, metadata |-> <<>>, dense_index |-> <<>>,
     idf |-> [t \in {} |-> <<0, 1>>], doc_lengths |-> <<>>,
     avg_doc_length |-> <<0, 1>>, term_freqs |-> <<>>]

State ==
    [documents |-> documents, metadata |-> metadata,
     dense_index |-> dense_index, idf |-> idf, doc_lengths |-> doc_lengths,
     avg_doc_length |-> avg_doc_length, term_freqs |-> term_freqs]

\* as idf_value, without the + 1: np.log((n_docs - df + 0.5) / (df + 0.5))
idf_value_without_smoothing(n_docs, df) ==
    Frac(2 * n_docs - 2 * df + 1, 2 * df + 1)

\* np.log((n_docs - df + 0.5) / (df + 0.5) + 1), as the argument of the log
idf_value(n_docs, df) == Frac(2 * n_docs + 2, 2 * df + 1)

term_freq_of(terms) ==
    LET ts == {terms[i] : i \in DOMAIN terms}
    IN [t \in ts |-> Cardinality({i \in DOMAIN terms : terms[i] = t})]

document_frequency(tfs, term) ==
    Cardinality({i \in DOMAIN tfs : term \in DOMAIN tfs[i][2]})

\* as index_for_bm25, but the counts of a document that is indexed again are
\* added to the counts it has
index_for_bm25_accumulating(s, doc_id, content) ==
    LET terms == tokenize(content)
        new == term_freq_of(terms)
        old == IF DictHas(s.term_freqs, doc_id)
               THEN DictGet(s.term_freqs, doc_id)
               ELSE [t \in {} |-> 0]
        sum == [t \in DOMAIN old \cup DOMAIN new |->
                  (IF t \in DOMAIN old THEN old[t] ELSE 0)
                  + (IF t \in DOMAIN new THEN new[t] ELSE 0)]
        tfs == DictSet(s.term_freqs, doc_id, sum)
        n_docs == Len(s.documents)
        ts == {terms[i] : i \in DOMAIN terms}
    IN [s EXCEPT !.doc_lengths = DictSet(@, doc_id, Len(terms)),
                 !.term_freqs = tfs,
                 !.idf = [t \in DOMAIN s.idf \cup ts |->
                            IF t \in ts
                            THEN idf_value(n_docs, document_frequency(tfs, t))
                            ELSE s.idf[t]]]

index_for_bm25(s, doc_id, content) ==
    LET terms == tokenize(content)
        lens == DictSet(s.doc_lengths, doc_id, Len(terms))
        tfs == DictSet(s.term_freqs, doc_id, term_freq_of(terms))
        n_docs == Len(s.documents)
        ts == {terms[i] : i \in DOMAIN terms}
    IN [s EXCEPT !.doc_lengths = lens,
                 !.term_freqs = tfs,
                 !.idf = [t \in DOMAIN s.idf \cup ts |->
                            IF t \in ts
                            THEN idf_value(n_docs, document_frequency(tfs, t))
                            ELSE s.idf[t]]]

\* as store_record, but the embedding of an id that is in the dense index
\* stays (setdefault)
store_record_keeps_embedding(s, doc, embedding) ==
    LET doc_id == doc.id
        content == doc.content
        meta == IF "metadata" \in DOMAIN doc THEN doc.metadata ELSE {}
        stored == [s EXCEPT !.documents = DictSet(@, doc_id, content),
                            !.metadata = DictSet(@, doc_id, meta),
                            !.dense_index =
                                IF DictHas(@, doc_id) THEN @
                                ELSE DictSet(@, doc_id, embedding)]
    IN index_for_bm25(stored, doc_id, content)

\* the body of the loop of add_documents for one (doc, embedding) pair
store_record(s, doc, embedding) ==
    LET doc_id == doc.id
        content == doc.content
        meta == IF "metadata" \in DOMAIN doc THEN doc.metadata ELSE {}
        stored == [s EXCEPT !.documents = DictSet(@, doc_id, content),
                            !.metadata = DictSet(@, doc_id, meta),
                            !.dense_index = DictSet(@, doc_id, embedding)]
    IN index_for_bm25(stored, doc_id, content)

\* doc["id"] and doc["content"] raise KeyError on a record without the key
raises_KeyError(doc) == "id" \notin DOMAIN doc \/ "content" \notin DOMAIN doc

\* as add_loop, but the metadata of a record is stored before its content
\* is read
RECURSIVE add_loop_metadata_first(_, _, _, _)
add_loop_metadata_first(s, docs, embeddings, i) ==
    IF i > Min(Len(docs), Len(embeddings))
    THEN [state |-> s, raised |-> FALSE]
    ELSE IF raises_KeyError(docs[i])
         THEN [state |-> IF "id" \in DOMAIN docs[i]
                         THEN [s EXCEPT !.metadata =
                                            DictSet(@, docs[i].id, {})]
                         ELSE s,
               raised |-> TRUE]
         ELSE add_loop_metadata_first(
                  store_record(s, docs[i], embeddings[i]),
                  docs, embeddings, i + 1)

\* zip(documents, embeddings) stops at the shorter of the two
RECURSIVE add_loop(_, _, _, _)
add_loop(s, docs, embeddings, i) ==
    IF i > Min(Len(docs), Len(embeddings))
    THEN [state |-> s, raised |-> FALSE]
    ELSE IF raises_KeyError(docs[i])
         THEN [state |-> s, raised |-> TRUE]
         ELSE add_loop(store_record(s, docs[i], embeddings[i]),
                       docs, embeddings, i + 1)

\* as mean_doc_length, but the mean is taken only while the average is 0
mean_doc_length_first_time(s) ==
    IF s.doc_lengths = <<>> \/ s.avg_doc_length # <<0, 1>>
    THEN s.avg_doc_length
    ELSE Frac(SeqSum(DictValues(s.doc_lengths)), Len(s.doc_lengths))

\* np.mean(list(self._doc_lengths.values())), when _doc_lengths is not empty
mean_doc_length(s) ==
    IF s.doc_lengths = <<>>
    THEN s.avg_doc_length
    ELSE Frac(SeqSum(DictValues(s.doc_lengths)), Len(s.doc_lengths))

add_documents(s, docs, embeddings) ==
    LET r == add_loop(s, docs, embeddings, 1)
    IN IF r.raised
       THEN r
       ELSE [state |-> [r.state EXCEPT !.avg_doc_length = mean_doc_length(r.state)],
             raised |-> FALSE]

----------------------------------------------------------------------------
(* Reciprocal Rank Fusion.  A candidate list is a sequence of              *)
(* <<id, score>> pairs, a weight is a fraction.                            *)

\* as rrf_score, with the rank counted from 1 as the docstring's
\* 1 / (k + rank) reads
rrf_score_docstring(weight, k, rank) == Frac(weight[1], weight[2] * (k + rank))

\* weight / (self.rrf_k + rank + 1)
rrf_score(weight, k, rank) == Frac(weight[1], weight[2] * (k + rank + 1))

\* as rrf_accumulate, but a candidate adds its source score
RECURSIVE rrf_accumulate_with_score(_, _, _, _, _)
rrf_accumulate_with_score(rrf_scores, results, weight, k, i) ==
    IF i > Len(results)
    THEN rrf_scores
    ELSE LET doc_id == results[i][1]
             had == IF DictHas(rrf_scores, doc_id)
                    THEN DictGet(rrf_scores, doc_id)
                    ELSE <<0, 1>>
         IN rrf_accumulate_with_score(
                DictSet(rrf_scores, doc_id, FracAdd(had, results[i][2])),
                results, weight, k, i + 1)

\* for rank, (doc_id, score) in enumerate(results): rrf_scores[doc_id] =
\* rrf_scores.get(doc_id, 0) + rrf_score
RECURSIVE rrf_accumulate(_, _, _, _, _)
rrf_accumulate(rrf_scores, results, weight, k, i) ==
    IF i > Len(results)
    THEN rrf_scores
    ELSE LET doc_id == results[i][1]
             had == IF DictHas(rrf_scores, doc_id)
                    THEN DictGet(rrf_scores, doc_id)
                    ELSE <<0, 1>>
         IN rrf_accumulate(
                DictSet(rrf_scores, doc_id,
                        FracAdd(had, rrf_score(weight, k, i - 1))),
                results, weight, k, i + 1)

\* sorted(items, key=lambda x: x[1], reverse=True): by descending score,
\* items of equal score in the order they have in items
RECURSIVE insert_descending(_, _)
insert_descending(sorted, x) ==
    IF sorted = <<>>
    THEN <<x>>
    ELSE IF FracLess(Head(sorted)[2], x[2])
         THEN <<x>> \o sorted
         ELSE <<Head(sorted)>> \o insert_descending(Tail(sorted), x)

RECURSIVE sorted_reverse(_)
sorted_reverse(items) ==
    IF items = <<>>
    THEN <<>>
    ELSE insert_descending(sorted_reverse(SubSeq(items, 1, Len(items) - 1)),
                           items[Len(items)])

\* items[:top_k] for top_k >= 0
take(items, top_k) == SubSeq(items, 1, Min(top_k, Len(items)))

reciprocal_rank_fusion(s, dw, sw, k, dense_results, sparse_results, top_k) ==
    LET after_dense == rrf_accumulate(<<>>, dense_results, dw, k, 1)
        rrf_scores == rrf_accumulate(after_dense, sparse_results, sw, k, 1)
        sorted_results == take(sorted_reverse(rrf_scores), top_k)
    IN [i \in DOMAIN sorted_results |->
          LET doc_id == sorted_results[i][1]
          IN [id |-> doc_id,
              content |-> DictGet(s.documents, doc_id),
              score |-> sorted_results[i][2],
              metadata |-> IF DictHas(s.metadata, doc_id)
                           THEN DictGet(s.metadata, doc_id)
                           ELSE {},
              source |-> "fused"]]

----------------------------------------------------------------------------
(* Dense search.  An embedding is a sequence of integers.  The cosine      *)
(* similarity dot / (norm * norm) is held as sign(dot) * dot^2 / (norm^2 * *)
(* norm^2), a fraction that is 0, equal or ordered exactly when the cosine *)
(* is.                                                                     *)

\* np.dot(u, v) for two vectors of the same length
dot(u, v) == SeqSum([i \in DOMAIN u |-> u[i] * v[i]])

\* np.linalg.norm(v) > 0
norm_positive(v) == dot(v, v) > 0

cosine_similarity(query_embedding, doc_embedding) ==
    LET d == dot(query_embedding, doc_embedding)
    IN Frac((IF d < 0 THEN 0 - 1 ELSE 1) * d * d,
            dot(query_embedding, query_embedding)
                * dot(doc_embedding, doc_embedding))

\* the loop over self._dense_index.items(): an entry gets a score when the
\* norm of the query and its own norm are positive
RECURSIVE dense_scores(_, _, _)
dense_scores(index, query_embedding, i) ==
    IF i = 0
    THEN <<>>
    ELSE LET scores == dense_scores(index, query_embedding, i - 1)
         IN IF norm_positive(query_embedding) /\ norm_positive(index[i][2])
            THEN Append(scores,
                        <<index[i][1],
                          cosine_similarity(query_embedding, index[i][2])>>)
            ELSE scores

\* np.dot raises ValueError on two vectors of different lengths
raises_ValueError(index, query_embedding) ==
    \E i \in DOMAIN index :
        /\ norm_positive(query_embedding)
        /\ norm_positive(index[i][2])
        /\ Len(index[i][2]) # Len(query_embedding)

dense_search(s, query_embedding, top_k) ==
    IF s.dense_index = <<>>
    THEN [results |-> <<>>, raised |-> FALSE]
    ELSE IF raises_ValueError(s.dense_index, query_embedding)
         THEN [results |-> <<>>, raised |-> TRUE]
         ELSE [results |->
                   take(sorted_reverse(
                            dense_scores(s.dense_index, query_embedding,
                                         Len(s.dense_index))),
                        top_k),
               raised |-> FALSE]

----------------------------------------------------------------------------
(* Sparse search.  A BM25 score is held in units of 1 / LnScale, as the    *)
(* fraction <<score, 1>>; the product of an IDF and a fraction is rounded  *)
(* down to a whole unit.  NaN is the one value that is neither less nor    *)
(* greater than any other.                                                 *)

LnScale == 1000000

FracMul(x, y) == Frac(x[1] * y[1], x[2] * y[2])

FracDiv(x, y) == Frac(x[1] * y[2], x[2] * y[1])

NaN == <<0, 0>>

\* p / m + p z^2 / (m + 2) + ..., for z^2 = a / c, until the terms vanish
RECURSIVE atanh_series(_, _, _, _)
atanh_series(p, m, a, c) ==
    IF p = 0 THEN 0 ELSE (p \div m) + atanh_series((p * a) \div c, m + 2, a, c)

\* np.log(x) of a fraction x >= 1, in units of 1 / LnScale, as
\* 2 atanh((x - 1) / (x + 1))
log_at_least_1(x) ==
    LET n == x[1] - x[2]
        d == x[1] + x[2]
    IN 2 * atanh_series((LnScale * n) \div d, 1, n * n, d * d)

\* np.log(x) of a fraction x > 0
log(x) ==
    IF x[1] >= x[2]
    THEN log_at_least_1(x)
    ELSE 0 - log_at_least_1(<<x[2], x[1]>>)

bm25_k1 == <<3, 2>>
bm25_b == <<3, 4>>

\* idf * numerator / denominator for one query term that is in self._idf.
\* self._avg_doc_length is a np.float64 once add_documents has completed
\* on stored documents: when it is 0, doc_length / self._avg_doc_length is
\* nan for a length of 0 and inf for another length, and a finite
\* numerator over an infinite denominator is 0.
bm25_term(s, doc_id, term) ==
    LET doc_length == IF DictHas(s.doc_lengths, doc_id)
                      THEN DictGet(s.doc_lengths, doc_id)
                      ELSE 0
        freqs == IF DictHas(s.term_freqs, doc_id)
                 THEN DictGet(s.term_freqs, doc_id)
                 ELSE [t \in {} |-> 0]
        tf == IF term \in DOMAIN freqs THEN freqs[term] ELSE 0
        numerator == FracMul(<<tf, 1>>, FracAdd(bm25_k1, <<1, 1>>))
        relative == Frac(doc_length * s.avg_doc_length[2], s.avg_doc_length[1])
        denominator ==
            FracAdd(<<tf, 1>>,
                    FracMul(bm25_k1,
                            FracAdd(<<bm25_b[2] - bm25_b[1], bm25_b[2]>>,
                                    FracMul(bm25_b, relative))))
        quotient == FracDiv(numerator, denominator)
    IN IF s.avg_doc_length[1] = 0
       THEN IF doc_length = 0 THEN NaN ELSE <<0, 1>>
       ELSE <<(log(s.idf[term]) * quotient[1]) \div quotient[2], 1>>

\* score += ..., where nan + x is nan
score_add(x, y) == IF x = NaN \/ y = NaN THEN NaN ELSE <<x[1] + y[1], 1>>

\* the loop over query_terms for one document: a term that is not in
\* self._idf is skipped
RECURSIVE bm25_score(_, _, _, _)
bm25_score(s, query_terms, doc_id, j) ==
    IF j = 0
    THEN <<0, 1>>
    ELSE LET score == bm25_score(s, query_terms, doc_id, j - 1)
         IN IF query_terms[j] \notin DOMAIN s.idf
            THEN score
            ELSE score_add(score, bm25_term(s, doc_id, query_terms[j]))

sparse_search(s, query, top_k) ==
    LET query_terms == tokenize(query)
        scores == [i \in DOMAIN s.documents |->
                     <<s.documents[i][1],
                       bm25_score(s, query_terms, s.documents[i][1],
                                  Len(query_terms))>>]
    IN take(sorted_reverse(scores), top_k)

----------------------------------------------------------------------------
(* retrieve.  The top_k argument is <<>> for None and <<n>> for n; the     *)
(* measured latency is not part of the model.                              *)

DefaultTopK == 10

\* top_k or self.top_k
top_k_or_default(top_k) ==
    IF top_k = <<>> THEN DefaultTopK
    ELSE IF top_k[1] = 0 THEN DefaultTopK ELSE top_k[1]

\* as retrieve, but total_candidates is the number of documents returned
retrieve_counting_returned(s, dw, sw, k, query, query_embedding, top_k) ==
    LET n == top_k_or_default(top_k)
        dense == dense_search(s, query_embedding, n * 2)
        sparse_results == sparse_search(s, query, n * 2)
        fused_results ==
            reciprocal_rank_fusion(s, dw, sw, k, dense.results,
                                   sparse_results, n)
    IN IF dense.raised
       THEN [raised |-> TRUE, value |-> <<>>]
       ELSE [raised |-> FALSE,
             value |-> [documents |-> fused_results,
                        query |-> query,
                        retrieval_method |-> "hybrid_rrf",
                        total_candidates |-> Len(fused_results)]]

retrieve(s, dw, sw, k, query, query_embedding, top_k) ==
    LET n == top_k_or_default(top_k)
        dense == dense_search(s, query_embedding, n * 2)
        sparse_results == sparse_search(s, query, n * 2)
        fused_results ==
            reciprocal_rank_fusion(s, dw, sw, k, dense.results,
                                   sparse_results, n)
    IN IF dense.raised
       THEN [raised |-> TRUE, value |-> <<>>]
       ELSE [raised |-> FALSE,
             value |-> [documents |-> fused_results,
                        query |-> query,
                        retrieval_method |-> "hybrid_rrf",
                        total_candidates |-> Len(s.documents)]]

----------------------------------------------------------------------------
(* The cost guard of src/src/governance/cost_guard.py.  An amount of money *)
(* is a whole number of units of 0.0000001 USD, in which every price per   *)
(* token of MODEL_PRICING is a whole number.  A model name is the sequence *)
(* of its characters, a prompt is given by its length, an optional         *)
(* argument is <<>> for None and <<x>> for x, and a time is a number of    *)
(* hours.                                                                  *)

GuardState ==
    [usage_records |-> usage_records, user_usage |-> user_usage,
     total_cost_today |-> total_cost_today]

\* MODEL_PRICING, per token
MODEL_PRICING ==
    [tier \in {"gpt-4-turbo", "gpt-4", "gpt-3.5-turbo", "claude-3-opus",
               "claude-3-sonnet", "text-embedding-ada-002"} |->
        CASE tier = "gpt-4-turbo" -> [input |-> 100, output |-> 300]
          [] tier = "gpt-4" -> [input |-> 300, output |-> 600]
          [] tier = "gpt-3.5-turbo" -> [input |-> 5, output |-> 15]
          [] tier = "claude-3-opus" -> [input |-> 150, output |-> 750]
          [] tier = "claude-3-sonnet" -> [input |-> 30, output |-> 150]
          [] tier = "text-embedding-ada-002" -> [input |-> 1, output |-> 0]]

\* CostGuardConfig(): the defaults of the fields that CostGuard reads
DefaultCostConfig ==
    [max_cost_per_request_usd |-> 5000000,
     max_input_tokens |-> 8000,
     max_output_tokens |-> 4000,
     output_estimation_multiplier |-> <<3, 2>>]

\* model.lower(), for the capitals of the names of the model
lower_char(c) ==
    CASE c = "C" -> "c"
      [] c = "G" -> "g"
      [] c = "L" -> "l"
      [] c = "M" -> "m"
      [] c = "O" -> "o"
      [] c = "P" -> "p"
      [] c = "T" -> "t"
      [] OTHER -> c

lower_chars(text) == [i \in DOMAIN text |-> lower_char(text[i])]

\* sub in text
Contains(text, sub) ==
    \E i \in 1..(Len(text) - Len(sub) + 1) :
        SubSeq(text, i, i + Len(sub) - 1) = sub

\* as get_cost_tier, but 'gpt-4' is looked for first
get_cost_tier_gpt4_first(model) ==
    LET model_lower == lower_chars(model)
    IN IF Contains(model_lower, <<"g", "p", "t", "-", "4">>)
       THEN "gpt-4"
       ELSE IF /\ Contains(model_lower, <<"c", "l", "a", "u", "d", "e">>)
               /\ Contains(model_lower, <<"o", "p", "u", "s">>)
       THEN "claude-3-opus"
       ELSE IF Contains(model_lower, <<"c", "l", "a", "u", "d", "e">>)
       THEN "claude-3-sonnet"
       ELSE "gpt-3.5-turbo"

get_cost_tier(model) ==
    LET model_lower == lower_chars(model)
    IN IF \/ Contains(model_lower,
                      <<"g", "p", "t", "-", "4", "-", "t", "u", "r", "b", "o">>)
          \/ Contains(model_lower, <<"g", "p", "t", "-", "4", "o">>)
       THEN "gpt-4-turbo"
       ELSE IF Contains(model_lower, <<"g", "p", "t", "-", "4">>)
       THEN "gpt-4"
       ELSE IF /\ Contains(model_lower, <<"c", "l", "a", "u", "d", "e">>)
               /\ Contains(model_lower, <<"o", "p", "u", "s">>)
       THEN "claude-3-opus"
       ELSE IF Contains(model_lower, <<"c", "l", "a", "u", "d", "e">>)
       THEN "claude-3-sonnet"
       ELSE "gpt-3.5-turbo"

\* int(max_output_tokens * self.config.output_estimation_multiplier)
estimated_output_tokens(cfg, max_output_tokens) ==
    LET tokens == IF max_output_tokens = <<>>
                  THEN cfg.max_output_tokens
                  ELSE max_output_tokens[1]
    IN (tokens * cfg.output_estimation_multiplier[1])
           \div cfg.output_estimation_multiplier[2]

estimate_cost(cfg, prompt_length, model, max_output_tokens, time) ==
    LET pricing == MODEL_PRICING[get_cost_tier(model)]
        input_tokens == prompt_length \div 4
        estimated_output == estimated_output_tokens(cfg, max_output_tokens)
        input_cost == input_tokens * pricing.input
        output_cost == estimated_output * pricing.output
    IN [model |-> model,
        input_tokens |-> input_tokens,
        estimated_output_tokens |-> estimated_output,
        input_cost_usd |-> input_cost,
        output_cost_usd |-> output_cost,
        total_cost_usd |-> input_cost + output_cost,
        request_id |-> <<"req", prompt_length, time>>,
        timestamp |-> time]

\* as validate_request, but an estimate that is equal to a limit is
\* rejected too
validate_request_inclusive(cfg, estimate) ==
    IF estimate.total_cost_usd >= cfg.max_cost_per_request_usd
    THEN [raised |-> TRUE,
          error |-> [estimated_cost |-> estimate.total_cost_usd,
                     limit |-> cfg.max_cost_per_request_usd,
                     limit_type |-> "per_request"]]
    ELSE IF estimate.input_tokens >= cfg.max_input_tokens
    THEN [raised |-> TRUE,
          error |-> [estimated_cost |-> estimate.input_tokens,
                     limit |-> cfg.max_input_tokens,
                     limit_type |-> "input_tokens"]]
    ELSE [raised |-> FALSE, error |-> <<>>]

validate_request(cfg, estimate) ==
    IF estimate.total_cost_usd > cfg.max_cost_per_request_usd
    THEN [raised |-> TRUE,
          error |-> [estimated_cost |-> estimate.total_cost_usd,
                     limit |-> cfg.max_cost_per_request_usd,
                     limit_type |-> "per_request"]]
    ELSE IF estimate.input_tokens > cfg.max_input_tokens
    THEN [raised |-> TRUE,
          error |-> [estimated_cost |-> estimate.input_tokens,
                     limit |-> cfg.max_input_tokens,
                     limit_type |-> "input_tokens"]]
    ELSE [raised |-> FALSE, error |-> <<>>]

\* if user_id: None and the empty string are not a user
is_user(user_id) == user_id # <<>> /\ user_id[1] # ""

\* self._user_usage.get(user_id, [])
usage_of(user_usage_dict, user) ==
    IF DictHas(user_usage_dict, user)
    THEN DictGet(user_usage_dict, user)
    ELSE <<>>

\* as record_usage, but the record takes the place of the records that
\* the user has
record_usage_replacing(g, request_id, model, input_tokens, output_tokens, latency_ms, user_id, time) ==
    LET pricing == MODEL_PRICING[get_cost_tier(model)]
        actual_cost == input_tokens * pricing.input
                       + output_tokens * pricing.output
        record == [request_id |-> request_id, model |-> model,
                   input_tokens |-> input_tokens,
                   output_tokens |-> output_tokens,
                   actual_cost_usd |-> actual_cost,
                   latency_ms |-> latency_ms,
                   user_id |-> user_id, timestamp |-> time]
    IN [state |->
            [usage_records |-> Append(g.usage_records, record),
             user_usage |->
                 IF is_user(user_id)
                 THEN DictSet(g.user_usage, user_id[1], <<record>>)
                 ELSE g.user_usage,
             total_cost_today |-> g.total_cost_today + actual_cost],
        record |-> record]

record_usage(g, request_id, model, input_tokens, output_tokens, latency_ms, user_id, time) ==
    LET pricing == MODEL_PRICING[get_cost_tier(model)]
        actual_cost == input_tokens * pricing.input
                       + output_tokens * pricing.output
        record == [request_id |-> request_id, model |-> model,
                   input_tokens |-> input_tokens,
                   output_tokens |-> output_tokens,
                   actual_cost_usd |-> actual_cost,
                   latency_ms |-> latency_ms,
                   user_id |-> user_id, timestamp |-> time]
    IN [state |->
            [usage_records |-> Append(g.usage_records, record),
             user_usage |->
                 IF is_user(user_id)
                 THEN DictSet(g.user_usage, user_id[1],
                              Append(usage_of(g.user_usage, user_id[1]),
                                     record))
                 ELSE g.user_usage,
             total_cost_today |-> g.total_cost_today + actual_cost],
        record |-> record]

get_usage_summary(g, user_id, hours, time) ==
    LET cutoff == time - hours
        of_user == IF is_user(user_id)
                   THEN usage_of(g.user_usage, user_id[1])
                   ELSE g.usage_records
        records == SelectSeq(of_user, LAMBDA r : r.timestamp > cutoff)
    IN IF records = <<>>
       THEN [period_hours |-> hours, request_count |-> 0,
             total_cost_usd |-> 0]
       ELSE [period_hours |-> hours, request_count |-> Len(records),
             total_cost_usd |->
                 SeqSum([i \in DOMAIN records |-> records[i].actual_cost_usd]),
             total_input_tokens |->
                 SeqSum([i \in DOMAIN records |-> records[i].input_tokens])]

\* CostGuard(cfg), at time 0
InitCostGuard(cfg) ==
    /\ cost_config = cfg
    /\ usage_records = <<>>
    /\ user_usage = <<>>
    /\ total_cost_today = 0
    /\ now = 0
    /\ lock = ""

----------------------------------------------------------------------------
(* The audit logger.  Python's None is the empty tuple.  A SHA-256 digest  *)
(* is held as the tuple of the fields that were hashed, so that events of  *)
(* different content have different hashes.                                *)

None == <<>>

AuditState ==
    [store_events |-> store_events, buffer |-> buffer,
     last_hash |-> last_hash, enable_hash_chain |-> enable_hash_chain]

\* AuditEvent._calculate_hash
calculate_hash(e) ==
    <<"sha256", e.event_id, e.event_type, e.timestamp, e.actor_id, e.action,
      e.outcome, e.details, e.previous_hash>>

\* AuditEvent(...), with __post_init__
AuditEvent(fields) ==
    [event_id |-> fields.event_id, event_type |-> fields.event_type,
     severity |-> fields.severity, timestamp |-> fields.timestamp,
     actor_id |-> fields.actor_id, actor_type |-> fields.actor_type,
     action |-> fields.action, outcome |-> fields.outcome,
     details |-> fields.details, request_id |-> fields.request_id,
     previous_hash |-> fields.previous_hash,
     event_hash |-> calculate_hash(fields)]

\* InMemoryAuditStore.write_batch: the lock of the store is free whenever
\* it is asked for (no coroutine suspends while it holds the lock, and
\* acquiring a free asyncio.Lock does not suspend), so the batch is
\* appended at once
write_batch(events, batch) == events \o batch

flush_keeping_buffer(a) ==
    IF a.buffer = <<>>
    THEN a
    ELSE [a EXCEPT !.store_events = write_batch(@, a.buffer)]

\* AuditLogger._flush
flush(a) ==
    IF a.buffer = <<>>
    THEN a
    ELSE [a EXCEPT !.store_events = write_batch(@, a.buffer),
                   !.buffer = <<>>]

\* AuditLogger.log; uuid is the value of uuid.uuid4() and time the value
\* of datetime.utcnow().  No await of log suspends the coroutine, so a
\* call runs from its first line to its return without another task
\* running in between.
audit_log(a, uuid, time, event_type, action, actor_id) ==
    LET event == AuditEvent(
                     [event_id |-> uuid, event_type |-> event_type,
                      severity |-> "info", timestamp |-> time,
                      actor_id |-> actor_id, actor_type |-> "user",
                      action |-> action, outcome |-> "success",
                      details |-> <<>>, request_id |-> None,
                      previous_hash |-> IF a.enable_hash_chain
                                        THEN a.last_hash
                                        ELSE None])
        logged == [a EXCEPT !.last_hash = event.event_hash,
                            !.buffer = Append(@, event)]
    IN [state |-> flush(logged), event |-> event]

\* the limit that verify_chain passes to query
VerifyLimit == 10000

\* InMemoryAuditStore.query(start_time=start_time, limit=limit)
store_query(events, start_time, limit) ==
    take(SelectSeq(events, LAMBDA e : e.timestamp >= start_time), limit)

\* InMemoryAuditStore.verify_chain: (no errors, the errors)
verify_chain(stored, start_time, end_time) ==
    LET events == store_query(stored, start_time, VerifyLimit)
        broken == SelectSeq([i \in DOMAIN events |-> i],
                      LAMBDA i : i > 1 /\ events[i].previous_hash
                                            # events[i - 1].event_hash)
        errors == [j \in DOMAIN broken |->
                      <<"chain broken", events[broken[j]].event_id>>]
    IN <<Len(errors) = 0, errors>>

\* AuditLogger.verify_integrity
verify_integrity(a, start_time, end_time) ==
    LET flushed == flush(a)
    IN [state |-> flushed,
        value |-> verify_chain(flushed.store_events, start_time, end_time)]

\* AuditLogger(InMemoryAuditStore(), enable_hash_chain)
InitAuditLogger(chain) ==
    /\ store_events = <<>>
    /\ buffer = <<>>
    /\ last_hash = None
    /\ enable_hash_chain = chain

----------------------------------------------------------------------------
(* The embedding service.  The embedding model is held as a function of    *)
(* the text: the vector that the model gives for it.  An MD5 digest is     *)
(* held as the string that was hashed, here the pair of its two parts.     *)

model_name == "text-embedding-3-small"

\* the vector of the embedding model for a text
model_embedding(text) ==
    CASE text = "a" -> <<1, 0>>
      [] text = "b" -> <<0, 1>>
      [] OTHER -> <<1, 1>>

\* EmbeddingService._get_cache_key
get_cache_key(text) == <<model_name, text>>

\* EmbeddingService._embed_batch
embed_batch(texts) == [i \in DOMAIN texts |-> model_embedding(texts[i])]

\* the first loop of embed_texts: the embeddings found in the cache
cached_embeddings(c, caching, texts) ==
    LET hits == SelectSeq(texts,
                    LAMBDA text : caching /\ DictHas(c, get_cache_key(text)))
    IN [i \in DOMAIN hits |-> DictGet(c, get_cache_key(hits[i]))]

\* the first loop of embed_texts: the texts not found in the cache
texts_to_embed(c, caching, texts) ==
    SelectSeq(texts,
        LAMBDA text : ~(caching /\ DictHas(c, get_cache_key(text))))

\* the second loop of embed_texts: self._cache[key] = emb for each new one
RECURSIVE update_cache(_, _, _, _)
update_cache(c, keys, new_embeddings, i) ==
    IF i > Min(Len(keys), Len(new_embeddings))
    THEN c
    ELSE update_cache(DictSet(c, keys[i], new_embeddings[i]), keys,
                      new_embeddings, i + 1)

\* EmbeddingService.embed_texts: the cache after the call and the rows of
\* the array that is returned
embed_texts(c, caching, texts) ==
    LET remaining == texts_to_embed(c, caching, texts)
        cache_keys == [i \in DOMAIN remaining |-> get_cache_key(remaining[i])]
        new_embeddings == embed_batch(remaining)
    IN [cache |-> IF caching
                  THEN update_cache(c, cache_keys, new_embeddings, 1)
                  ELSE c,
        value |-> cached_embeddings(c, caching, texts) \o new_embeddings]

\* EmbeddingService.embed_query
embed_query(c, caching, text) ==
    LET r == embed_texts(c, caching, <<text>>)
    IN [cache |-> r.cache, value |-> r.value[1]]

\* EmbeddingService(cache_embeddings=caching)
InitEmbeddingService(caching) ==
    /\ cache = <<>>
    /\ cache_embeddings = caching

\* the audit logger and the embedding service as constructed by default
InitServices ==
    /\ InitAuditLogger(TRUE)
    /\ InitEmbeddingService(TRUE)

----------------------------------------------------------------------------
(* The de-duplication of PHI detections.  A detection is the category of   *)
(* its pattern, the span [start, end) of the match in the text and the     *)
(* confidence of the pattern; the text of a match is as long as its span.  *)

\* the key of the sort: (d.start, -len(d.text))
sorts_before(d, e) ==
    \/ d.start < e.start
    \/ d.start = e.start /\ -(d.end - d.start) < -(e.end - e.start)

\* one step of the stable sort: d goes behind the detections that do not
\* sort after it
RECURSIVE insert_by_key(_, _)
insert_by_key(sorted_dets, d) ==
    IF sorted_dets = <<>>
    THEN <<d>>
    ELSE IF sorts_before(d, Head(sorted_dets))
    THEN <<d>> \o sorted_dets
    ELSE <<Head(sorted_dets)>> \o insert_by_key(Tail(sorted_dets), d)

\* sorted(detections, key=lambda d: (d.start, -len(d.text)))
RECURSIVE sorted_by_key(_)
sorted_by_key(detections) ==
    IF detections = <<>>
    THEN <<>>
    ELSE insert_by_key(sorted_by_key(SubSeq(detections, 1,
                                            Len(detections) - 1)),
                       detections[Len(detections)])

\* the loop of _deduplicate over sorted_dets[i..]
RECURSIVE keep_apart(_, _, _)
keep_apart(kept, sorted_dets, i) ==
    IF i > Len(sorted_dets)
    THEN kept
    ELSE LET det == sorted_dets[i]
             last == kept[Len(kept)]
         IN keep_apart(IF det.start >= last.end
                       THEN Append(kept, det)
                       ELSE kept,
                       sorted_dets, i + 1)

\* HIPAASafeHarborDetector._deduplicate
deduplicate(detections) ==
    IF detections = <<>>
    THEN detections
    ELSE LET sorted_dets == sorted_by_key(detections)
         IN keep_apart(<<sorted_dets[1]>>, sorted_dets, 2)

----------------------------------------------------------------------------
(* The inputs: records of a batch, each with the row of the embedding      *)
(* matrix that belongs to it.                                              *)

DocIds == {"a", "b"}

Content1 == <<"Heart", "disease", "risk">>
Content2 == <<"diabetes", "and", "heart", "care">>

Meta1 == {<<"source", "guideline">>}

Emb1 == <<1, 0>>
Emb2 == <<0, 1>>
Emb3 == <<1, 0, 0>>

\* two versions of each document, which differ in content, metadata and
\* embedding, and one record whose embedding has another length
ValidRecords ==
    {<<[id |-> i, content |-> Content1], Emb1>> : i \in DocIds}
    \cup {<<[id |-> i, content |-> Content2, metadata |-> Meta1], Emb2>> :
            i \in DocIds}
    \cup {<<[id |-> "b", content |-> Content1], Emb3>>}

\* a record without an id, and one without content
InvalidRecords ==
    {<<[content |-> Content1], Emb1>>, <<[id |-> "a"], Emb1>>}

Records == ValidRecords \cup InvalidRecords

RecordSeqs == UNION {[1..n -> Records] : n \in 1..MaxBatch}

\* a batch: the documents, and the embeddings of all of them or of all but
\* the last
Batches ==
    {[documents |-> [i \in DOMAIN rs |-> rs[i][1]],
      embeddings |-> [i \in 1..(Len(rs) - short) |-> rs[i][2]]] :
        rs \in RecordSeqs, short \in {0, 1}}

NoCall == [documents |-> <<>>, embeddings |-> <<>>]

----------------------------------------------------------------------------
(* One caller at a time: add_documents runs as a whole on the arguments of *)
(* the call and returns or raises; the caller then goes on.                *)

SetRetriever(s) ==
    /\ documents' = s.documents
    /\ metadata' = s.metadata
    /\ dense_index' = s.dense_index
    /\ idf' = s.idf
    /\ doc_lengths' = s.doc_lengths
    /\ avg_doc_length' = s.avg_doc_length
    /\ term_freqs' = s.term_freqs

\* the defaults of HybridRetriever.__init__
DefaultDenseWeight == <<7, 10>>
DefaultSparseWeight == <<3, 10>>
DefaultRrfK == 60

NoResult == <<>>

Writers == {"w1", "w2"}

\* a thread that is not in add_documents
NoThread == [pc |-> "none", batch |-> NoCall, i |-> 0, n_docs |-> 0, todo |-> {}]

\* no retrieve yet; after it, the one value it has read
NoObs == <<>>

SetRetrieverInit(s) ==
    /\ documents = s.documents
    /\ metadata = s.metadata
    /\ dense_index = s.dense_index
    /\ idf = s.idf
    /\ doc_lengths = s.doc_lengths
    /\ avg_doc_length = s.avg_doc_length
    /\ term_freqs = s.term_freqs

Init ==
    /\ documents = <<>>
    /\ metadata = <<>>
    /\ dense_index = <<>>
    /\ idf = [t \in {} |-> <<0, 1>>]
    /\ doc_lengths = <<>>
    /\ avg_doc_length = <<0, 1>>
    /\ term_freqs = <<>>
    /\ dense_weight = DefaultDenseWeight
    /\ sparse_weight = DefaultSparseWeight
    /\ rrf_k = DefaultRrfK
    /\ pc = "idle"
    /\ call = NoCall
    /\ outcome = "none"
    /\ result = NoResult
    /\ threads = [t \in Writers |-> NoThread]
    /\ obs = NoObs
    /\ InitCostGuard(DefaultCostConfig)
    /\ InitServices

AddDocuments ==
    /\ pc = "idle"
    /\ \E b \in Batches :
         LET r == add_documents(State, b.documents, b.embeddings)
         IN /\ call' = b
            /\ SetRetriever(r.state)
            /\ outcome' = IF r.raised THEN "KeyError" ELSE "ok"
    /\ pc' = "returned"
    /\ UNCHANGED <<config, governance, services, result, threads, obs>>

Return ==
    /\ pc = "returned"
    /\ pc' = "idle"
    /\ call' = NoCall
    /\ outcome' = "none"
    /\ result' = NoResult
    /\ UNCHANGED <<retriever, config, governance, services, threads, obs>>

Next == AddDocuments \/ Return

Spec == Init /\ [][Next]_vars

----------------------------------------------------------------------------
(* The fusion step on its own: a retriever that holds three documents,     *)
(* with the default weights or with equal weights, is handed two candidate *)
(* lists and a top_k.                                                      *)

MaxTopK == 3

IdOrder == <<"a", "b", "c">>

IdRank(id) == CHOOSE i \in DOMAIN IdOrder : IdOrder[i] = id

FusionCorpus ==
    add_documents(
        EmptyRetriever,
        <<[id |-> "a", content |-> <<"heart", "disease", "risk">>],
          [id |-> "b", content |-> Content2, metadata |-> Meta1],
          [id |-> "c", content |-> <<"unrelated", "topic">>]>>,
        <<Emb1, Emb2, Emb1>>).state

WeightChoices ==
    {<<DefaultDenseWeight, DefaultSparseWeight>>, <<<<1, 2>>, <<1, 2>>>>}

\* the ids of a candidate list: no id twice, as the lists are made from the
\* items of a dict
IdLists ==
    {ids \in UNION {[1..n -> {IdOrder[i] : i \in DOMAIN IdOrder}] : n \in 0..MaxList} :
        \A i, j \in DOMAIN ids : i # j => ids[i] # ids[j]}

\* the source scores: cosine similarities 0.9, 0.8, ... and BM25 scores
\* 5, 3, ...
DenseList(ids) == [i \in DOMAIN ids |-> <<ids[i], Frac(10 - i, 10)>>]
SparseList(ids) == [i \in DOMAIN ids |-> <<ids[i], Frac(7 - 2 * i, 1)>>]

InitFusion ==
    /\ SetRetrieverInit(FusionCorpus)
    /\ \E w \in WeightChoices : dense_weight = w[1] /\ sparse_weight = w[2]
    /\ rrf_k = DefaultRrfK
    /\ pc = "idle"
    /\ call = NoCall
    /\ outcome = "none"
    /\ result = NoResult
    /\ threads = [t \in Writers |-> NoThread]
    /\ obs = NoObs
    /\ InitCostGuard(DefaultCostConfig)
    /\ InitServices

Fuse ==
    /\ pc = "idle"
    /\ \E d \in IdLists, sp \in IdLists, k \in 0..MaxTopK :
         /\ call' = [dense_results |-> DenseList(d),
                     sparse_results |-> SparseList(sp),
                     top_k |-> k]
         /\ result' = reciprocal_rank_fusion(
                          State, dense_weight, sparse_weight, rrf_k,
                          DenseList(d), SparseList(sp), k)
    /\ outcome' = "ok"
    /\ pc' = "returned"
    /\ UNCHANGED <<retriever, config, governance, services, threads, obs>>

NextFusion == Fuse \/ Return

SpecFusion == InitFusion /\ [][NextFusion]_vars

----------------------------------------------------------------------------
(* Indexing and searching by one caller: documents are added one record a  *)
(* call to a retriever that starts empty, and the three searches are       *)
(* called on what is stored.                                               *)

EmbZero == <<0, 0>>
EmbDiagonal == <<1, 1>>

\* Content1 with one more "heart"
ContentMore == <<"heart", "heart", "disease", "risk">>

\* for each id: the two documents of ValidRecords, one with a higher term
\* frequency and one whose embedding has norm 0; and the record of another
\* dimension
IndexRecords ==
    {<<[id |-> i, content |-> Content1], Emb1>> : i \in DocIds}
    \cup {<<[id |-> i, content |-> Content2, metadata |-> Meta1], Emb2>> :
            i \in DocIds}
    \cup {<<[id |-> i, content |-> ContentMore], Emb1>> : i \in DocIds}
    \cup {<<[id |-> i, content |-> Content1], EmbZero>> : i \in DocIds}
    \cup {<<[id |-> "b", content |-> Content1], Emb3>>}

\* a query of one term, one of three terms, one of stopwords only and one
\* of a term that no document has
QueryTexts ==
    {<<"heart">>, <<"Heart", "disease", "risk">>, <<"the", "of">>,
     <<"kidney">>}

QueryEmbeddings == {Emb1, EmbZero, EmbDiagonal}

\* top_k as the caller of retrieve gives it: None, or a number
TopKArguments == {<<>>} \cup {<<n>> : n \in 0..MaxTopK}

\* what is stored for an id when a call is made, <<>> when nothing is
ContentOf(s, id) ==
    IF DictHas(s.documents, id) THEN DictGet(s.documents, id) ELSE <<>>

IndexDocument ==
    /\ pc = "idle"
    /\ \E rec \in IndexRecords :
         LET r == add_documents(State, <<rec[1]>>, <<rec[2]>>)
         IN /\ call' = [op |-> "add_documents",
                        documents |-> <<rec[1]>>,
                        embeddings |-> <<rec[2]>>,
                        replaced |-> ContentOf(State, rec[1].id)]
            /\ SetRetriever(r.state)
            /\ outcome' = IF r.raised THEN "KeyError" ELSE "ok"
    /\ pc' = "returned"
    /\ UNCHANGED <<config, governance, services, result, threads, obs>>

DenseSearch ==
    /\ pc = "idle"
    /\ \E q \in QueryEmbeddings, n \in 0..MaxTopK :
         LET r == dense_search(State, q, n)
         IN /\ call' = [op |-> "dense_search", query_embedding |-> q,
                        top_k |-> n]
            /\ result' = r.results
            /\ outcome' = IF r.raised THEN "ValueError" ELSE "ok"
    /\ pc' = "returned"
    /\ UNCHANGED <<retriever, config, governance, services, threads, obs>>

SparseSearch ==
    /\ pc = "idle"
    /\ \E q \in QueryTexts, n \in 0..MaxTopK :
         /\ call' = [op |-> "sparse_search", query |-> q, top_k |-> n]
         /\ result' = sparse_search(State, q, n)
    /\ outcome' = "ok"
    /\ pc' = "returned"
    /\ UNCHANGED <<retriever, config, governance, services, threads, obs>>

\* as Retrieve, but the dense index is left in the order of the ranking
RetrieveSortingIndex ==
    /\ pc = "idle"
    /\ \E q \in QueryTexts, e \in QueryEmbeddings, n \in TopKArguments :
         LET r == retrieve(State, dense_weight, sparse_weight, rrf_k, q, e, n)
             ranked == dense_search(State, e, Len(dense_index)).results
         IN /\ call' = [op |-> "retrieve", query |-> q,
                        query_embedding |-> e, top_k |-> n]
            /\ result' = r.value
            /\ outcome' = IF r.raised THEN "ValueError" ELSE "ok"
            /\ dense_index' =
                   [i \in DOMAIN ranked |->
                      <<ranked[i][1], DictGet(dense_index, ranked[i][1])>>]
                   \o SelectSeq(dense_index,
                                LAMBDA x : \A i \in DOMAIN ranked :
                                               ranked[i][1] # x[1])
    /\ pc' = "returned"
    /\ UNCHANGED <<documents, metadata, idf, doc_lengths, avg_doc_length,
                   term_freqs, config, governance, services, threads, obs>>

Retrieve ==
    /\ pc = "idle"
    /\ \E q \in QueryTexts, e \in QueryEmbeddings, n \in TopKArguments :
         LET r == retrieve(State, dense_weight, sparse_weight, rrf_k, q, e, n)
         IN /\ call' = [op |-> "retrieve", query |-> q,
                        query_embedding |-> e, top_k |-> n]
            /\ result' = r.value
            /\ outcome' = IF r.raised THEN "ValueError" ELSE "ok"
    /\ pc' = "returned"
    /\ UNCHANGED <<retriever, config, governance, services, threads, obs>>

NextRetrieve ==
    IndexDocument \/ DenseSearch \/ SparseSearch \/ Retrieve \/ Return

SpecRetrieve == Init /\ [][NextRetrieve]_vars

----------------------------------------------------------------------------
(* The cost guard and one caller: usage is recorded, summaries are asked   *)
(* for and estimates are validated, while time goes by.                    *)

\* most records, and the latest hour
MaxRecords == 2
MaxTime == 2

\* CostGuardConfig(max_cost_per_request_usd=0.001, max_input_tokens=10,
\* output_estimation_multiplier=1.0, max_cost_per_user_hourly_usd=0.002,
\* max_cost_per_user_daily_usd=0.003, max_requests_per_user_hourly=1,
\* max_cost_daily_usd=0.003), with the fields that no method reads
SmallCostConfig ==
    [max_cost_per_user_hourly_usd |-> 20000,
     max_cost_per_user_daily_usd |-> 30000,
     max_requests_per_user_hourly |-> 1,
     max_cost_daily_usd |-> 30000]
    @@ [DefaultCostConfig EXCEPT !.max_cost_per_request_usd = 10000,
                                 !.max_input_tokens = 10,
                                 !.output_estimation_multiplier = <<1, 1>>]

GPT4 == <<"g", "p", "t", "-", "4">>
GPT4Turbo == <<"G", "P", "T", "-", "4", "-", "t", "u", "r", "b", "o">>
ClaudeOpus == <<"C", "l", "a", "u", "d", "e", "-", "3", "-", "O", "p", "u", "s">>

\* user_id: None, the empty string and two users
UserArguments == {<<>>, <<"">>, <<"u1">>, <<"u2">>}

\* prompts of 10, 10 and 11 tokens
PromptLengths == {40, 43, 44}

OutputArguments == {<<>>, <<10>>, <<30>>}

Estimates ==
    {estimate_cost(cost_config, p, m, o, now) :
        p \in PromptLengths, m \in {GPT4, GPT4Turbo}, o \in OutputArguments}

SetGuard(g) ==
    /\ usage_records' = g.usage_records
    /\ user_usage' = g.user_usage
    /\ total_cost_today' = g.total_cost_today

\* datetime.utcnow() an hour later, between two calls
Tick ==
    /\ pc = "idle"
    /\ now < MaxTime
    /\ now' = now + 1
    /\ UNCHANGED <<retriever, config, caller, threads, obs, cost_config,
                   usage_records, user_usage, total_cost_today, lock,
                   services>>

RecordUsage ==
    /\ pc = "idle"
    /\ Len(usage_records) < MaxRecords
    /\ \E u \in UserArguments, m \in {GPT4, ClaudeOpus} :
         LET r == record_usage(GuardState, "req_1", m, 10, 20, 100, u, now)
         IN /\ call' = [op |-> "record_usage", request_id |-> "req_1",
                        model |-> m, input_tokens |-> 10,
                        output_tokens |-> 20, latency_ms |-> 100,
                        user_id |-> u]
            /\ SetGuard(r.state)
            /\ result' = r.record
    /\ outcome' = "ok"
    /\ pc' = "returned"
    /\ UNCHANGED <<retriever, config, threads, obs, cost_config, now, lock,
                   services>>

GetUsageSummary ==
    /\ pc = "idle"
    /\ \E u \in UserArguments, h \in {1, 24} :
         /\ call' = [op |-> "get_usage_summary", user_id |-> u, hours |-> h]
         /\ result' = get_usage_summary(GuardState, u, h, now)
    /\ outcome' = "ok"
    /\ pc' = "returned"
    /\ UNCHANGED <<retriever, config, threads, obs, governance, services>>

ValidateRequest ==
    /\ pc = "idle"
    /\ \E e \in Estimates, u \in {<<>>, <<"u1">>} :
         LET r == validate_request(cost_config, e)
         IN /\ call' = [op |-> "validate_request", estimate |-> e,
                        user_id |-> u]
            /\ result' = r.error
            /\ outcome' = IF r.raised THEN "CostLimitExceededError" ELSE "ok"
    /\ pc' = "returned"
    /\ UNCHANGED <<retriever, config, threads, obs, governance, services>>

InitCost ==
    /\ SetRetrieverInit(EmptyRetriever)
    /\ dense_weight = DefaultDenseWeight
    /\ sparse_weight = DefaultSparseWeight
    /\ rrf_k = DefaultRrfK
    /\ pc = "idle"
    /\ call = NoCall
    /\ outcome = "none"
    /\ result = NoResult
    /\ threads = [t \in Writers |-> NoThread]
    /\ obs = NoObs
    /\ InitCostGuard(SmallCostConfig)
    /\ InitServices

NextCost ==
    Tick \/ RecordUsage \/ GetUsageSummary \/ ValidateRequest \/ Return

SpecCost == InitCost /\ [][NextCost]_vars

----------------------------------------------------------------------------
(* The cost guard, estimating: estimate_cost for the names of models of    *)
(* every tier, under the default and under a small configuration.          *)

GPT4o == <<"g", "p", "t", "-", "4", "o">>
GPT4oMini == <<"g", "p", "t", "-", "4", "o", "-", "m", "i", "n", "i">>
GPT35Turbo == <<"g", "p", "t", "-", "3", ".", "5", "-", "t", "u", "r", "b", "o">>
ClaudeSonnet ==
    <<"c", "l", "a", "u", "d", "e", "-", "3", "-", "s", "o", "n", "n", "e", "t">>
Claude2 == <<"c", "l", "a", "u", "d", "e", "-", "2">>
Llama == <<"L", "l", "a", "m", "a", "-", "3">>
EmbeddingAda == <<"t", "e", "x", "t", "-", "e", "m", "b", "e", "d", "d", "i",
                  "n", "g", "-", "a", "d", "a", "-", "0", "0", "2">>

ModelNames ==
    {GPT4, GPT4Turbo, GPT4o, GPT4oMini, GPT35Turbo, ClaudeOpus, ClaudeSonnet,
     Claude2, Llama, EmbeddingAda}

EstimateCost ==
    /\ pc = "idle"
    /\ \E p \in PromptLengths \cup {0}, m \in ModelNames,
          o \in OutputArguments :
         /\ call' = [op |-> "estimate_cost", prompt_length |-> p,
                      model |-> m, max_output_tokens |-> o]
         /\ result' = estimate_cost(cost_config, p, m, o, now)
    /\ outcome' = "ok"
    /\ pc' = "returned"
    /\ UNCHANGED <<retriever, config, threads, obs, governance, services>>

InitEstimate ==
    /\ SetRetrieverInit(EmptyRetriever)
    /\ dense_weight = DefaultDenseWeight
    /\ sparse_weight = DefaultSparseWeight
    /\ rrf_k = DefaultRrfK
    /\ pc = "idle"
    /\ call = NoCall
    /\ outcome = "none"
    /\ result = NoResult
    /\ threads = [t \in Writers |-> NoThread]
    /\ obs = NoObs
    /\ \E cfg \in {DefaultCostConfig, SmallCostConfig} : InitCostGuard(cfg)
    /\ InitServices

NextEstimate == Tick \/ EstimateCost \/ Return

SpecEstimate == InitEstimate /\ [][NextEstimate]_vars

----------------------------------------------------------------------------
(* The audit logger, called by the tasks of one event loop.  A coroutine   *)
(* gives way to another task only where an await finds something pending.  *)
(* In log, _flush and write_batch the only such place is the acquisition   *)
(* of the lock of the store, and that lock is free at every acquisition:   *)
(* the coroutine that holds it appends or copies and releases it without   *)
(* an await in between.  So each call is one step of its task, and the     *)
(* tasks take their steps in any order.                                    *)

MaxEvents == 2

Tasks == {"t1", "t2"}

\* the values that uuid.uuid4() can give
Uuids == 1..(MaxEvents + 1)

EventTypes == {"rag.query", "phi.detected"}

SetAudit(a) ==
    /\ store_events' = a.store_events
    /\ buffer' = a.buffer
    /\ last_hash' = a.last_hash
    /\ UNCHANGED enable_hash_chain

\* await audit_logger.log(event_type, "query", actor_id=t) in task t
Log ==
    /\ pc = "idle"
    /\ Len(store_events) < MaxEvents
    /\ \E t \in Tasks, ty \in EventTypes,
          u \in Uuids \ {store_events[i].event_id : i \in DOMAIN store_events} :
         LET r == audit_log(AuditState, u, now, ty, "query", <<t>>)
         IN /\ call' = [op |-> "log", task |-> t, event_type |-> ty,
                        action |-> "query", actor_id |-> <<t>>]
            /\ SetAudit(r.state)
            /\ result' = r.event
    /\ outcome' = "ok"
    /\ pc' = "returned"
    /\ UNCHANGED <<retriever, config, governance, embedder, threads, obs>>

\* await audit_logger.verify_integrity(start_time, end_time)
VerifyIntegrity ==
    /\ pc = "idle"
    /\ \E start_time \in 0..now :
         LET r == verify_integrity(AuditState, start_time, now)
         IN /\ call' = [op |-> "verify_integrity",
                        start_time |-> start_time, end_time |-> now]
            /\ SetAudit(r.state)
            /\ result' = r.value
    /\ outcome' = "ok"
    /\ pc' = "returned"
    /\ UNCHANGED <<retriever, config, governance, embedder, threads, obs>>

InitAudit ==
    /\ SetRetrieverInit(EmptyRetriever)
    /\ dense_weight = DefaultDenseWeight
    /\ sparse_weight = DefaultSparseWeight
    /\ rrf_k = DefaultRrfK
    /\ pc = "idle"
    /\ call = NoCall
    /\ outcome = "none"
    /\ result = NoResult
    /\ threads = [t \in Writers |-> NoThread]
    /\ obs = NoObs
    /\ InitCostGuard(DefaultCostConfig)
    /\ \E chain \in BOOLEAN : InitAuditLogger(chain)
    /\ InitEmbeddingService(TRUE)

NextAudit == Tick \/ Log \/ VerifyIntegrity \/ Return

SpecAudit == InitAudit /\ [][NextAudit]_vars

----------------------------------------------------------------------------
(* The de-duplication, applied to the matches of patterns of different     *)
(* confidence in a short text.                                             *)

\* the length of the text that is scanned
MaxPosition == 3

\* the number of matches in the text
MaxDetections == 2

\* the SSN pattern (high) and the first licence pattern (medium)
PatternsOfText == {[category |-> "ssn", confidence |-> "high"],
                   [category |-> "license_number", confidence |-> "medium"]}

Matches ==
    {[category |-> p.category, start |-> b, end |-> e,
      confidence |-> p.confidence] :
        p \in PatternsOfText,
        b \in 0..(MaxPosition - 1), e \in 1..MaxPosition}

Detections == {d \in Matches : d.start < d.end}

RECURSIVE ListsOf(_, _)
ListsOf(elements, n) ==
    IF n = 0
    THEN {<<>>}
    ELSE ListsOf(elements, n - 1)
         \cup {Append(l, x) : l \in {m \in ListsOf(elements, n - 1) :
                                         Len(m) = n - 1},
                               x \in elements}

Deduplicate ==
    /\ pc = "idle"
    /\ \E detections \in ListsOf(Detections, MaxDetections) :
         /\ call' = [op |-> "deduplicate", detections |-> detections]
         /\ result' = deduplicate(detections)
    /\ outcome' = "ok"
    /\ pc' = "returned"
    /\ UNCHANGED <<retriever, config, governance, services, threads, obs>>

NextPhi == Deduplicate \/ Return

SpecPhi == Init /\ [][NextPhi]_vars

----------------------------------------------------------------------------
(* The embedding service: texts are embedded one list after another, so    *)
(* that a later list finds some of its texts in the cache.                 *)

\* the longest list of texts
MaxTexts == 2

Texts == {"a", "b", "c"}

SetEmbedder(c) ==
    /\ cache' = c
    /\ UNCHANGED cache_embeddings

EmbedTexts ==
    /\ pc = "idle"
    /\ \E texts \in ListsOf(Texts, MaxTexts) :
         LET r == embed_texts(cache, cache_embeddings, texts)
         IN /\ call' = [op |-> "embed_texts", texts |-> texts]
            /\ SetEmbedder(r.cache)
            /\ result' = r.value
    /\ outcome' = "ok"
    /\ pc' = "returned"
    /\ UNCHANGED <<retriever, config, governance, audit, threads, obs>>

EmbedQuery ==
    /\ pc = "idle"
    /\ \E text \in Texts :
         LET r == embed_query(cache, cache_embeddings, text)
         IN /\ call' = [op |-> "embed_query", query |-> text]
            /\ SetEmbedder(r.cache)
            /\ result' = r.value
    /\ outcome' = "ok"
    /\ pc' = "returned"
    /\ UNCHANGED <<retriever, config, governance, audit, threads, obs>>

\* EmbeddingService.clear_cache
ClearCache ==
    /\ pc = "idle"
    /\ call' = [op |-> "clear_cache"]
    /\ SetEmbedder(<<>>)
    /\ result' = None
    /\ outcome' = "ok"
    /\ pc' = "returned"
    /\ UNCHANGED <<retriever, config, governance, audit, threads, obs>>

InitEmbed ==
    /\ SetRetrieverInit(EmptyRetriever)
    /\ dense_weight = DefaultDenseWeight
    /\ sparse_weight = DefaultSparseWeight
    /\ rrf_k = DefaultRrfK
    /\ pc = "idle"
    /\ call = NoCall
    /\ outcome = "none"
    /\ result = NoResult
    /\ threads = [t \in Writers |-> NoThread]
    /\ obs = NoObs
    /\ InitCostGuard(DefaultCostConfig)
    /\ InitAuditLogger(TRUE)
    /\ \E caching \in BOOLEAN : InitEmbeddingService(caching)

NextEmbed == EmbedTexts \/ EmbedQuery \/ ClearCache \/ Return

SpecEmbed == InitEmbed /\ [][NextEmbed]_vars

----------------------------------------------------------------------------
(* The sparse index under upserts that take every term from a document:    *)
(* the new content consists of stopwords only.                             *)

ContentStop == <<"the", "of">>

\* add_documents for one document without a term
IndexStopwords ==
    /\ pc = "idle"
    /\ \E i \in DocIds :
         LET doc == [id |-> i, content |-> ContentStop]
             r == add_documents(State, <<doc>>, <<Emb1>>)
         IN /\ call' = [op |-> "add_documents", documents |-> <<doc>>,
                        embeddings |-> <<Emb1>>,
                        replaced |-> ContentOf(State, i)]
            /\ SetRetriever(r.state)
            /\ outcome' = IF r.raised THEN "KeyError" ELSE "ok"
    /\ pc' = "returned"
    /\ UNCHANGED <<config, governance, services, result, threads, obs>>

NextUpsert == IndexDocument \/ IndexStopwords \/ SparseSearch \/ Return

SpecUpsert == Init /\ [][NextUpsert]_vars

----------------------------------------------------------------------------
(* The cost guard, called from threads.  A thread in record_usage builds   *)
(* its record, takes the lock, appends the record to the list, reads and   *)
(* writes the running total, appends the record to the list of its user    *)
(* and gives the lock back; each of these is one step, and the steps of    *)
(* the threads interleave.  get_usage_summary reads under the same lock.   *)

\* a thread that is not in record_usage, and has completed no call
NoUsageThread ==
    [pc |-> "idle", record |-> <<>>, total_read |-> 0, made |-> <<>>]

\* with self._lock: the lock can be taken
lock_is_free_always(l) == TRUE

lock_is_free(l) == l = ""

InRecordUsage == {t \in Writers : threads[t].pc # "idle"}

CallsMade == SeqSum([i \in 1..2 |->
                 Len(threads[IF i = 1 THEN "w1" ELSE "w2"].made)])

\* lines 152-155: the cost and the record, with the time of the call
BuildRecord(t) ==
    /\ threads[t].pc = "idle"
    /\ CallsMade + Cardinality(InRecordUsage) < MaxRecords
    /\ \E u \in {<<>>, <<"u1">>} :
         LET m == IF t = "w1" THEN GPT4 ELSE ClaudeOpus
             r == record_usage(GuardState, "req_1", m, 10, 20, 100, u, now)
         IN threads' = [threads EXCEPT ![t].pc = "lock",
                                       ![t].record = r.record]
    /\ UNCHANGED <<retriever, config, caller, governance, services, obs>>

\* with self._lock:
AcquireLock(t) ==
    /\ threads[t].pc = "lock"
    /\ lock_is_free(lock)
    /\ lock' = t
    /\ threads' = [threads EXCEPT ![t].pc = "append"]
    /\ UNCHANGED <<retriever, config, caller, services, obs, cost_config,
                   usage_records, user_usage, total_cost_today, now>>

\* self._usage_records.append(record)
AppendRecord(t) ==
    /\ threads[t].pc = "append"
    /\ usage_records' = Append(usage_records, threads[t].record)
    /\ threads' = [threads EXCEPT ![t].pc = "read_total"]
    /\ UNCHANGED <<retriever, config, caller, services, obs, cost_config,
                   user_usage, total_cost_today, now, lock>>

\* self._total_cost_today += actual_cost: the read
ReadTotal(t) ==
    /\ threads[t].pc = "read_total"
    /\ threads' = [threads EXCEPT ![t].pc = "write_total",
                                  ![t].total_read = total_cost_today]
    /\ UNCHANGED <<retriever, config, caller, governance, services, obs>>

\* self._total_cost_today += actual_cost: the write
WriteTotal(t) ==
    /\ threads[t].pc = "write_total"
    /\ total_cost_today' =
           threads[t].total_read + threads[t].record.actual_cost_usd
    /\ threads' = [threads EXCEPT ![t].pc = "user", ![t].total_read = 0]
    /\ UNCHANGED <<retriever, config, caller, services, obs, cost_config,
                   usage_records, user_usage, now, lock>>

\* if user_id: self._user_usage[user_id].append(record)
AppendUser(t) ==
    /\ threads[t].pc = "user"
    /\ LET record == threads[t].record
       IN user_usage' =
              IF is_user(record.user_id)
              THEN DictSet(user_usage, record.user_id[1],
                           Append(usage_of(user_usage, record.user_id[1]),
                                  record))
              ELSE user_usage
    /\ threads' = [threads EXCEPT ![t].pc = "release"]
    /\ UNCHANGED <<retriever, config, caller, services, obs, cost_config,
                   usage_records, total_cost_today, now, lock>>

\* the end of the with block, and return record
ReleaseLock(t) ==
    /\ threads[t].pc = "release"
    /\ lock' = ""
    /\ threads' = [threads EXCEPT ![t].pc = "idle", ![t].record = <<>>,
                                  ![t].made = Append(@, threads[t].record)]
    /\ UNCHANGED <<retriever, config, caller, services, obs, cost_config,
                   usage_records, user_usage, total_cost_today, now>>

\* get_usage_summary() in a third thread: what it returns, with the
\* number of the calls of record_usage that have returned
ReadSummary ==
    /\ lock_is_free(lock)
    /\ obs' = [summary |-> get_usage_summary(GuardState, <<>>, 24, now),
               calls_made |-> CallsMade]
    /\ UNCHANGED <<retriever, config, caller, governance, services, threads>>

UsageStep(t) ==
    \/ BuildRecord(t) \/ AcquireLock(t) \/ AppendRecord(t) \/ ReadTotal(t)
    \/ WriteTotal(t) \/ AppendUser(t) \/ ReleaseLock(t)

InitUsage ==
    /\ SetRetrieverInit(EmptyRetriever)
    /\ dense_weight = DefaultDenseWeight
    /\ sparse_weight = DefaultSparseWeight
    /\ rrf_k = DefaultRrfK
    /\ pc = "idle"
    /\ call = NoCall
    /\ outcome = "none"
    /\ result = NoResult
    /\ threads = [t \in Writers |-> NoUsageThread]
    /\ obs = NoObs
    /\ InitCostGuard(SmallCostConfig)
    /\ InitServices

NextUsage == (\E t \in Writers : UsageStep(t)) \/ ReadSummary \/ Tick

SpecUsage == InitUsage /\ [][NextUsage]_vars

----------------------------------------------------------------------------
(* Callers in threads.  The class takes no lock, so the statements of two  *)
(* add_documents calls, and a retrieve, interleave.  A step of a thread is *)
(* one statement that reads or writes a shared dict; what a thread does    *)
(* on its local variables only goes with the step before it.               *)

\* two records that differ in id, content, metadata and embedding
ThreadRecords ==
    {<<[id |-> "a", content |-> Content1], Emb1>>,
     <<[id |-> "b", content |-> Content2, metadata |-> Meta1], Emb2>>}

ThreadBatches ==
    {[documents |-> [i \in DOMAIN rs |-> rs[i][1]],
      embeddings |-> [i \in DOMAIN rs |-> rs[i][2]]] :
        rs \in UNION {[1..n -> ThreadRecords] : n \in 1..MaxBatch}}

\* where the loop of add_documents goes with pair i: out of the loop, to
\* the KeyError of doc["id"] or doc["content"], or to its first store
loop_pc(b, i) ==
    IF i > Min(Len(b.documents), Len(b.embeddings)) THEN "avg"
    ELSE IF raises_KeyError(b.documents[i]) THEN "raised"
    ELSE "documents"

Started(b) ==
    [pc |-> loop_pc(b, 1), batch |-> b, i |-> 1, n_docs |-> 0, todo |-> {}]

Doc(t) == threads[t].batch.documents[threads[t].i]

Goto(t, label) == threads' = [threads EXCEPT ![t].pc = label]

\* self._documents[doc_id] = content
WDocuments(t) ==
    /\ threads[t].pc = "documents"
    /\ documents' = DictSet(documents, Doc(t).id, Doc(t).content)
    /\ Goto(t, "metadata")
    /\ UNCHANGED <<metadata, dense_index, idf, doc_lengths, avg_doc_length,
                   term_freqs, config, governance, services, caller, obs>>

\* self._metadata[doc_id] = metadata
WMetadata(t) ==
    /\ threads[t].pc = "metadata"
    /\ metadata' = DictSet(metadata, Doc(t).id,
                           IF "metadata" \in DOMAIN Doc(t)
                           THEN Doc(t).metadata ELSE {})
    /\ Goto(t, "dense_index")
    /\ UNCHANGED <<documents, dense_index, idf, doc_lengths, avg_doc_length,
                   term_freqs, config, governance, services, caller, obs>>

\* self._dense_index[doc_id] = embedding
WDenseIndex(t) ==
    /\ threads[t].pc = "dense_index"
    /\ dense_index' = DictSet(dense_index, Doc(t).id,
                              threads[t].batch.embeddings[threads[t].i])
    /\ Goto(t, "doc_lengths")
    /\ UNCHANGED <<documents, metadata, idf, doc_lengths, avg_doc_length,
                   term_freqs, config, governance, services, caller, obs>>

\* self._doc_lengths[doc_id] = len(terms)
WDocLengths(t) ==
    /\ threads[t].pc = "doc_lengths"
    /\ doc_lengths' = DictSet(doc_lengths, Doc(t).id,
                              Len(tokenize(Doc(t).content)))
    /\ Goto(t, "term_freqs")
    /\ UNCHANGED <<documents, metadata, dense_index, idf, avg_doc_length,
                   term_freqs, config, governance, services, caller, obs>>

\* self._term_freqs[doc_id] = term_freq
WTermFreqs(t) ==
    /\ threads[t].pc = "term_freqs"
    /\ term_freqs' = DictSet(term_freqs, Doc(t).id,
                             term_freq_of(tokenize(Doc(t).content)))
    /\ Goto(t, "n_docs")
    /\ UNCHANGED <<documents, metadata, dense_index, idf, doc_lengths,
                   avg_doc_length, config, governance, services, caller, obs>>

\* n_docs = len(self._documents), and the loop over set(terms) begins
WNDocs(t) ==
    /\ threads[t].pc = "n_docs"
    /\ LET ts == TermsOf(Doc(t).content)
       IN threads' = [threads EXCEPT
              ![t].n_docs = Len(documents),
              ![t].todo = ts,
              ![t].pc = IF ts = {} THEN loop_pc(threads[t].batch, threads[t].i + 1)
                        ELSE "idf",
              ![t].i = IF ts = {} THEN @ + 1 ELSE @]
    /\ UNCHANGED <<retriever, config, governance, services, caller, obs>>

\* one turn of the loop over set(terms): df is counted, self._idf[term] set
WIdf(t) ==
    /\ threads[t].pc = "idf"
    /\ \E term \in threads[t].todo :
         LET left == threads[t].todo \ {term}
         IN /\ idf' = [x \in DOMAIN idf \cup {term} |->
                          IF x = term
                          THEN idf_value(threads[t].n_docs,
                                         document_frequency(term_freqs, term))
                          ELSE idf[x]]
            /\ threads' = [threads EXCEPT
                   ![t].todo = left,
                   ![t].pc = IF left = {}
                             THEN loop_pc(threads[t].batch, threads[t].i + 1)
                             ELSE "idf",
                   ![t].i = IF left = {} THEN @ + 1 ELSE @]
    /\ UNCHANGED <<documents, metadata, dense_index, doc_lengths,
                   avg_doc_length, term_freqs, config, governance, services,
                   caller, obs>>

\* if self._doc_lengths: self._avg_doc_length = np.mean(...); the call ends
WAvg(t) ==
    /\ threads[t].pc = "avg"
    /\ avg_doc_length' = mean_doc_length(State)
    /\ Goto(t, "done")
    /\ UNCHANGED <<documents, metadata, dense_index, idf, doc_lengths,
                   term_freqs, config, governance, services, caller, obs>>

WriterStep(t) ==
    \/ WDocuments(t)
    \/ WMetadata(t)
    \/ WDenseIndex(t)
    \/ WDocLengths(t)
    \/ WTermFreqs(t)
    \/ WNDocs(t)
    \/ WIdf(t)
    \/ WAvg(t)

\* what _sparse_search reads of the corpus: the ids of self._documents it
\* loops over, self._idf and self._avg_doc_length
Statistics(s) ==
    [documents |-> [i \in DOMAIN s.documents |-> s.documents[i][1]],
     idf |-> s.idf,
     avg_doc_length |-> s.avg_doc_length]

\* a retrieve in another thread, run without interruption
ReadStatistics ==
    /\ obs = NoObs
    /\ obs' = <<Statistics(State)>>
    /\ UNCHANGED <<retriever, config, governance, services, caller, threads>>

\* two threads, each in one add_documents call
InitWriters ==
    /\ SetRetrieverInit(EmptyRetriever)
    /\ dense_weight = DefaultDenseWeight
    /\ sparse_weight = DefaultSparseWeight
    /\ rrf_k = DefaultRrfK
    /\ pc = "idle"
    /\ call = NoCall
    /\ outcome = "none"
    /\ result = NoResult
    /\ threads \in [Writers -> {Started(b) : b \in ThreadBatches}]
    /\ obs = NoObs
    /\ InitCostGuard(DefaultCostConfig)
    /\ InitServices

NextWriters == \E t \in Writers : WriterStep(t)

SpecWriters == InitWriters /\ [][NextWriters]_vars

\* one thread in add_documents, one in retrieve
InitReadWrite ==
    /\ SetRetrieverInit(EmptyRetriever)
    /\ dense_weight = DefaultDenseWeight
    /\ sparse_weight = DefaultSparseWeight
    /\ rrf_k = DefaultRrfK
    /\ pc = "idle"
    /\ call = NoCall
    /\ outcome = "none"
    /\ result = NoResult
    /\ \E b \in ThreadBatches :
         threads = [t \in Writers |-> IF t = "w1" THEN Started(b) ELSE NoThread]
    /\ obs = NoObs
    /\ InitCostGuard(DefaultCostConfig)
    /\ InitServices

NextReadWrite == WriterStep("w1") \/ ReadStatistics

SpecReadWrite == InitReadWrite /\ [][NextReadWrite]_vars

----------------------------------------------------------------------------
(* What the claims are stated with.                                        *)

TermSet(text) == LET terms == tokenize(text) IN {terms[j] : j \in DOMAIN terms}

\* the terms of the stored documents, and in how many of them a term occurs
CorpusTerms == UNION {TermSet(documents[i][2]) : i \in DOMAIN documents}

CorpusDf(t) ==
    Cardinality({i \in DOMAIN documents : t \in TermSet(documents[i][2])})

\* the (document, embedding) pairs of a batch that zip pairs up
Paired(b) == 1..Min(Len(b.documents), Len(b.embeddings))

HasId(doc) == "id" \in DOMAIN doc

InvalidBatch(b) ==
    \/ \E i \in DOMAIN b.documents : raises_KeyError(b.documents[i])
    \/ Len(b.embeddings) < Len(b.documents)

DuplicateIds(b) ==
    \E i, j \in DOMAIN b.documents :
        /\ i < j
        /\ HasId(b.documents[i])
        /\ HasId(b.documents[j])
        /\ b.documents[i].id = b.documents[j].id

\* the dimension D that the first inserted embedding fixes
Dimension(index, b) ==
    IF index # <<>> THEN Len(index[1][2]) ELSE Len(b.embeddings[1])

WrongDimension(index, b) ==
    \E i \in DOMAIN b.embeddings : Len(b.embeddings[i]) # Dimension(index, b)

SameDimension(index) ==
    \A i, j \in DOMAIN index : Len(index[i][2]) = Len(index[j][2])

AddReturned == pc = "idle" /\ pc' = "returned"

----------------------------------------------------------------------------
(* C1: after add_documents has completed, the stored IDF of every term of  *)
(* a stored document is ln((N - df + 0.5) / (df + 0.5) + 1) for the        *)
(* current number N of stored documents and the current number df of       *)
(* stored documents that contain the term.                                 *)
C1_IdfOfCurrentCorpus ==
    (pc = "returned" /\ outcome = "ok") =>
        \A t \in CorpusTerms :
            /\ t \in DOMAIN idf
            /\ idf[t] = idf_value(Len(documents), CorpusDf(t))

(* C2: add_documents with a batch that holds a record without id or        *)
(* without content, or fewer embeddings than documents, signals an error   *)
(* and leaves the document store, the vector index and the lexical         *)
(* statistics as they were.                                                *)
C2_InvalidBatchRejected ==
    [][(AddReturned /\ InvalidBatch(call')) =>
           (outcome' # "ok" /\ UNCHANGED retriever)]_vars

(* C3: add_documents with an embedding whose length is not the dimension D *)
(* of the first inserted embedding signals an error and changes no index,  *)
(* so that all stored embeddings have the same dimension.                  *)
C3_WrongDimensionRejected ==
    [][(AddReturned /\ ~InvalidBatch(call')) =>
           /\ WrongDimension(dense_index, call') =>
                  (outcome' # "ok" /\ UNCHANGED retriever)
           /\ SameDimension(dense_index')]_vars

(* C4: add_documents with a batch in which a document id occurs twice is   *)
(* rejected as a whole: nothing of it is stored, no index changes.         *)
C4_DuplicateIdsRejected ==
    [][(AddReturned /\ DuplicateIds(call') /\ ~InvalidBatch(call')) =>
           (outcome' # "ok" /\ UNCHANGED retriever)]_vars

\* all that is held for a document id
Held(s, id) ==
    [content |-> DictGet(s.documents, id),
     metadata |-> DictGet(s.metadata, id),
     embedding |-> DictGet(s.dense_index, id),
     term_freq |-> DictGet(s.term_freqs, id),
     length |-> DictGet(s.doc_lengths, id)]

\* all that a record of a batch, a document with its embedding, stands for
OfRecord(doc, embedding) ==
    LET terms == tokenize(doc.content)
    IN [content |-> doc.content,
        metadata |-> IF "metadata" \in DOMAIN doc THEN doc.metadata ELSE {},
        embedding |-> embedding,
        term_freq |-> [t \in {terms[j] : j \in DOMAIN terms} |->
                         Cardinality({j \in DOMAIN terms : terms[j] = t})],
        length |-> Len(terms)]

\* the records of batch b for document id: the paired, complete ones
RecordsFor(b, id) ==
    {i \in Paired(b) : /\ ~raises_KeyError(b.documents[i])
                       /\ b.documents[i].id = id}

Last(S) == CHOOSE i \in S : \A j \in S : j <= i

(* C5: after add_documents returns for a batch with a record (a document   *)
(* and its embedding) for an id that is already stored, the content,       *)
(* metadata, embedding, term frequencies and length held for the id are    *)
(* those of that record (of the last such record of the batch); and        *)
(* however the call ends, what is held for an id is as a whole what it     *)
(* was, or as a whole one record of the batch, never a mixture.            *)
C5_UpsertReplacesRecord ==
    [][AddReturned =>
           \A id \in DictKeys(documents) :
               LET new == RecordsFor(call', id)
                   rec(i) == OfRecord(call'.documents[i], call'.embeddings[i])
               IN /\ (outcome' = "ok" /\ new # {}) =>
                         Held(State', id) = rec(Last(new))
                  /\ \/ Held(State', id) = Held(State, id)
                     \/ \E i \in new : Held(State', id) = rec(i)]_vars

\* add_documents has returned from replacing the only document, "a", whose
\* earlier content has left the term "disease" in the IDF table
C5_Witness ==
    /\ pc = "returned"
    /\ outcome = "ok"
    /\ RecordsFor(call, "a") # {}
    /\ documents = <<<<"a", Content2>>>>
    /\ "disease" \in DOMAIN idf

(* C6: add_documents with one record (id, content, embedding), called      *)
(* again with the same record right after it has returned, changes         *)
(* nothing: documents, vector index, term frequencies, lengths, IDF table  *)
(* and average length stay what the first call left.                       *)
C6_UpsertIdempotent ==
    (/\ pc = "returned"
     /\ outcome = "ok"
     /\ Len(call.documents) = 1
     /\ Len(call.embeddings) = 1) =>
        add_documents(State, call.documents, call.embeddings)
            = [state |-> State, raised |-> FALSE]

\* a single record has been added to a corpus that holds another document
C6_Witness ==
    /\ pc = "returned"
    /\ outcome = "ok"
    /\ Len(call.documents) = 1
    /\ Len(call.embeddings) = 1
    /\ Len(documents) = 2
    /\ call.documents[1].id = documents[2][1]

\* the fused score that the claim gives an id: from each list that holds
\* the id at 0-based rank r, weight / (k + r + 1), and 0 from a list that
\* does not hold it
Contribution(weight, k, list, id) ==
    IF \E i \in DOMAIN list : list[i][1] = id
    THEN LET i == CHOOSE j \in DOMAIN list : list[j][1] = id
         IN Frac(weight[1], weight[2] * (k + (i - 1) + 1))
    ELSE <<0, 1>>

FusedScore(id) ==
    FracAdd(Contribution(dense_weight, rrf_k, call.dense_results, id),
            Contribution(sparse_weight, rrf_k, call.sparse_results, id))

ListIds(list) == {list[i][1] : i \in DOMAIN list}

CandidateIds == ListIds(call.dense_results) \cup ListIds(call.sparse_results)

ResultIds == [i \in DOMAIN result |-> result[i].id]

ExampleCall ==
    /\ call.dense_results = DenseList(<<"a", "b">>)
    /\ call.sparse_results = SparseList(<<"b", "c">>)
    /\ call.top_k = 3
    /\ dense_weight = <<7, 10>>
    /\ sparse_weight = <<3, 10>>
    /\ rrf_k = 60

(* C9: the fused score of an id is the sum over the dense and the sparse   *)
(* list of weight / (k + rank + 1) for its 0-based rank in the list, 0     *)
(* for a list without it; dense [a, b], sparse [b, c], weights (0.7, 0.3)  *)
(* and k = 60 give b 0.7/62 + 0.3/61, a 0.7/61, c 0.3/62, in the order     *)
(* b, a, c.                                                                *)
C9_FusedScores ==
    pc = "returned" =>
        /\ \A i \in DOMAIN result :
               /\ result[i].id \in CandidateIds
               /\ result[i].score = FusedScore(result[i].id)
        /\ Len(result) = Min(call.top_k, Cardinality(CandidateIds))
        /\ ExampleCall =>
               /\ ResultIds = <<"b", "a", "c">>
               /\ result[1].score = FracAdd(Frac(7, 620), Frac(3, 610))
               /\ result[2].score = Frac(7, 610)
               /\ result[3].score = Frac(3, 620)

\* the fusion step has returned from the example of the claim
C9_Witness == pc = "returned" /\ ExampleCall /\ Len(result) = 3

\* x comes before y in the order of the claim: the higher fused score
\* first, of two equal scores the lower id first
Before(x, y) ==
    \/ FracLess(FusedScore(y), FusedScore(x))
    \/ FusedScore(x) = FusedScore(y) /\ IdRank(x) < IdRank(y)

(* C10: the fusion step returns the ids by descending fused score, ids of  *)
(* equal score by ascending id, and returns the first top_k of them.       *)
C10_FusedOrder ==
    pc = "returned" =>
        /\ \A i, j \in DOMAIN result :
               i < j => Before(result[i].id, result[j].id)
        /\ Len(result) = Min(call.top_k, Cardinality(CandidateIds))
        /\ \A x \in CandidateIds :
               (\A i \in DOMAIN result : result[i].id # x) =>
                   \A i \in DOMAIN result : Before(result[i].id, x)

\* the dicts of a retriever as Python compares them: by key and value
AsMap(d) == {<<d[i][1], d[i][2]>> : i \in DOMAIN d}

Content(s) ==
    [documents |-> AsMap(s.documents), metadata |-> AsMap(s.metadata),
     dense_index |-> AsMap(s.dense_index), idf |-> s.idf,
     doc_lengths |-> AsMap(s.doc_lengths),
     avg_doc_length |-> s.avg_doc_length,
     term_freqs |-> AsMap(s.term_freqs)]

Serial(b1, b2) ==
    add_documents(add_documents(EmptyRetriever, b1.documents, b1.embeddings).state,
                  b2.documents, b2.embeddings).state

(* C7: what a retrieve that runs while add_documents is in a batch reads   *)
(* of the corpus (document set, IDF table, average length) is what was     *)
(* there before the batch or what is there after it, never something in    *)
(* between.                                                                *)
C7_ReaderSeesWholeBatches ==
    obs # NoObs =>
        LET b == threads["w1"].batch
        IN \/ obs[1] = Statistics(EmptyRetriever)
           \/ obs[1] = Statistics(
                  add_documents(EmptyRetriever, b.documents, b.embeddings).state)

(* C8: when two concurrent add_documents calls have ended, document store, *)
(* vector index, term frequencies, lengths, IDF table and average length   *)
(* are what running the two calls one after the other, in one of the two   *)
(* orders, leaves.                                                         *)
C8_WritersSerialized ==
    (\A t \in Writers : threads[t].pc = "done") =>
        \/ Content(State) = Content(Serial(threads["w1"].batch, threads["w2"].batch))
        \/ Content(State) = Content(Serial(threads["w2"].batch, threads["w1"].batch))

\* the last call was to the named operation
IsCall(name) == "op" \in DOMAIN call /\ call.op = name

ZeroNorm(v) == \A i \in DOMAIN v : v[i] = 0

(* C11: dense search gives a document whose embedding has norm 0, and      *)
(* every document when the query vector has norm 0, the similarity 0 and   *)
(* keeps it in the ranking: it returns min(k, number of stored documents)  *)
(* ids.                                                                    *)
C11_ZeroNormStaysCandidate ==
    (pc = "returned" /\ IsCall("dense_search") /\ outcome = "ok") =>
        /\ Len(result) = Min(call.top_k, Len(documents))
        /\ \A i \in DOMAIN result :
               (\/ ZeroNorm(call.query_embedding)
                \/ ZeroNorm(DictGet(dense_index, result[i][1]))) =>
                   result[i][2] = <<0, 1>>

\* the <<id, score>> pair x comes before y in the order of the claims: the
\* higher score first, of two equal scores the lower id first
RankedBefore(x, y) ==
    \/ FracLess(y[2], x[2])
    \/ x[2] = y[2] /\ IdRank(x[1]) < IdRank(y[1])

(* C12: dense search returns its candidates by descending cosine           *)
(* similarity, two documents of equal similarity by ascending id, in       *)
(* whatever order the documents were inserted.                             *)
C12_DenseOrder ==
    (pc = "returned" /\ IsCall("dense_search") /\ outcome = "ok") =>
        \A i, j \in DOMAIN result :
            i < j => RankedBefore(result[i], result[j])

\* the ids of the stored documents in ascending order
AscendingIds == SelectSeq(IdOrder, LAMBDA id : DictHas(documents, id))

(* C13: sparse search returns, without an error, the k documents of the    *)
(* highest BM25 score, by descending score and documents of equal score by *)
(* ascending id, in whatever order the documents were inserted; for a      *)
(* query of which no term is left by tokenization or is in the corpus all  *)
(* scores are 0 and the result is the min(k, number of stored documents)   *)
(* smallest ids in ascending order.                                        *)
C13_SparseOrder ==
    (pc = "returned" /\ IsCall("sparse_search")) =>
        /\ outcome = "ok"
        /\ Len(result) = Min(call.top_k, Len(documents))
        /\ \A i, j \in DOMAIN result :
               i < j => RankedBefore(result[i], result[j])
        /\ \A id \in DictKeys(documents) :
               (\A i \in DOMAIN result : result[i][1] # id) =>
                   \A i \in DOMAIN result :
                       RankedBefore(
                           result[i],
                           <<id, bm25_score(State, tokenize(call.query), id,
                                            Len(tokenize(call.query)))>>)
        /\ (\A t \in TermSet(call.query) : t \notin CorpusTerms) =>
               /\ \A i \in DOMAIN result : result[i][2] = <<0, 1>>
               /\ [i \in DOMAIN result |-> result[i][1]]
                      = take(AscendingIds, call.top_k)

(* C15: retrieve on a retriever to which no document was ever added       *)
(* returns normally, with no documents and total_candidates = 0, whatever  *)
(* the query, the query vector and top_k; and whenever retrieve returns,   *)
(* total_candidates is the number of documents stored.                     *)
C15_EmptyRetrieve ==
    (pc = "returned" /\ IsCall("retrieve")) =>
        /\ outcome = "ok" => result.total_candidates = Len(documents)
        /\ State = EmptyRetriever =>
               /\ outcome = "ok"
               /\ result.documents = <<>>
               /\ result.total_candidates = 0

\* retrieve has returned on the retriever as it is constructed
C15_Witness ==
    /\ pc = "returned"
    /\ IsCall("retrieve")
    /\ State = EmptyRetriever
    /\ call.query = <<"heart">>
    /\ call.query_embedding = Emb1
    /\ outcome = "ok"
    /\ result.documents = <<>>

C17_AvgIsCorpusMean ==
    (pc = "returned" /\ IsCall("add_documents") /\ outcome = "ok") =>
        avg_doc_length =
            Frac(SeqSum([i \in DOMAIN documents |->
                           Len(tokenize(documents[i][2]))]),
                 Len(documents))

\* a document of three tokens has been replaced by one of four, next to a
\* document of three tokens
C17_Witness ==
    /\ pc = "returned"
    /\ IsCall("add_documents")
    /\ outcome = "ok"
    /\ call.replaced = Content1
    /\ call.documents[1].content = ContentMore
    /\ Len(documents) = 2
    /\ avg_doc_length = <<7, 2>>

\* how often term t is among the tokens of a text
Count(text, t) ==
    LET terms == tokenize(text)
    IN Cardinality({j \in DOMAIN terms : terms[j] = t})

\* text new has term t more often than text old, and every other term as
\* often
RaisesFrequency(old, new, t) ==
    /\ Count(new, t) > Count(old, t)
    /\ \A u \in (TermSet(old) \cup TermSet(new)) \ {t} :
           Count(new, u) = Count(old, u)

\* the BM25 score that sparse search computes for a document
ScoreOf(s, query, id) ==
    bm25_score(s, tokenize(query), id, Len(tokenize(query)))

\* add_documents has completed for one record whose id was stored
Reindexed ==
    /\ AddReturned
    /\ call'.op = "add_documents"
    /\ outcome' = "ok"
    /\ call'.replaced # <<>>

(* C18, as stated: when document d is indexed again with a higher          *)
(* frequency of a term of the query, all other documents as they were, the *)
(* BM25 score of d for the query is not lower than it was.                 *)
C18_Bm25Monotone ==
    [][Reindexed =>
           \A q \in QueryTexts :
               (\E t \in TermSet(q) :
                    RaisesFrequency(call'.replaced,
                                    call'.documents[1].content, t)) =>
                   ~FracLess(ScoreOf(State', q, call'.documents[1].id),
                             ScoreOf(State, q, call'.documents[1].id))]_vars

(* C18, amended: when document d is indexed again with a higher frequency  *)
(* of term t and the same frequency of every other term, all other         *)
(* documents as they were, the BM25 score of d for a query whose only term *)
(* is t is not lower than it was.                                          *)
C18_Bm25MonotoneOneTerm ==
    [][Reindexed =>
           \A q \in QueryTexts :
               (\E t \in TermSet(q) :
                    /\ TermSet(q) = {t}
                    /\ RaisesFrequency(call'.replaced,
                                       call'.documents[1].content, t)) =>
                   ~FracLess(ScoreOf(State', q, call'.documents[1].id),
                             ScoreOf(State, q, call'.documents[1].id))]_vars

\* "Heart disease risk" has been replaced by "heart heart disease risk",
\* next to another document
C18_Witness ==
    /\ pc = "returned"
    /\ IsCall("add_documents")
    /\ outcome = "ok"
    /\ call.replaced = Content1
    /\ call.documents[1].content = ContentMore
    /\ Len(documents) = 2
    /\ documents[1][2] = Content2

\* a call has been made and has returned or raised
CallReturned == pc = "idle" /\ pc' = "returned"

RecordsMade(user_id, hours) ==
    SelectSeq(usage_records,
              LAMBDA r : /\ user_id # <<>> => r.user_id = user_id
                         /\ r.timestamp > now - hours)

SummaryAsClaimed ==
    LET made == RecordsMade(call.user_id, call.hours)
    IN /\ result.request_count = Len(made)
       /\ result.total_cost_usd =
              SeqSum([i \in DOMAIN made |-> made[i].actual_cost_usd])

(* C20, as stated: get_usage_summary(user_id=u) reports as request_count   *)
(* the number of the records made for user u inside the time window and as *)
(* total_cost_usd the sum of their actual costs, and without a user the    *)
(* number and the cost of all records inside the window; both are 0 when   *)
(* there is none.                                                          *)
C20_UsageSummary ==
    (pc = "returned" /\ IsCall("get_usage_summary")) => SummaryAsClaimed

(* C20, amended: the same for a user id u that is not the empty string.    *)
C20_UsageSummaryOfUser ==
    (pc = "returned" /\ IsCall("get_usage_summary") /\ call.user_id # <<"">>)
        => SummaryAsClaimed

\* the summary of the last hour for user u1, who has one record inside
\* the hour and one before it
C20_Witness ==
    /\ pc = "returned"
    /\ IsCall("get_usage_summary")
    /\ call.user_id = <<"u1">>
    /\ call.hours = 1
    /\ result.request_count = 1
    /\ Len(usage_of(user_usage, "u1")) = 2


----------------------------------------------------------------------------
(* C21.  estimate_cost prices a model by the tier of its name: the GPT-4   *)
(* Turbo tier for a name with 'gpt-4-turbo' or 'gpt-4o' in it (in any      *)
(* case of the letters), the GPT-4 tier for any other name with 'gpt-4',   *)
(* Claude Opus for a name with 'claude' and 'opus', Claude Sonnet for any  *)
(* other name with 'claude', and GPT-3.5 Turbo for every other name; the   *)
(* price it uses is always one of the table.                               *)

\* the tier that the sentence gives to each name of ModelNames
ClaimedTier ==
    [m \in ModelNames |->
        CASE m \in {GPT4Turbo, GPT4o, GPT4oMini} -> "gpt-4-turbo"
          [] m = GPT4 -> "gpt-4"
          [] m = ClaudeOpus -> "claude-3-opus"
          [] m \in {ClaudeSonnet, Claude2} -> "claude-3-sonnet"
          [] OTHER -> "gpt-3.5-turbo"]

PricedAt(estimate, tier) ==
    /\ tier \in DOMAIN MODEL_PRICING
    /\ estimate.input_cost_usd
           = estimate.input_tokens * MODEL_PRICING[tier].input
    /\ estimate.output_cost_usd
           = estimate.estimated_output_tokens * MODEL_PRICING[tier].output
    /\ estimate.total_cost_usd
           = estimate.input_cost_usd + estimate.output_cost_usd

C21_CostTier ==
    (pc = "returned" /\ IsCall("estimate_cost")) =>
        /\ PricedAt(result, ClaimedTier[call.model])
        /\ (ClaimedTier[call.model] = "gpt-4-turbo"
               /\ result.input_tokens > 0) =>
              ~PricedAt(result, "gpt-4")

\* estimate_cost has priced 'GPT-4-turbo', a name that has 'gpt-4' in it
\* too, for a prompt of 11 tokens
C21_Witness ==
    /\ pc = "returned"
    /\ IsCall("estimate_cost")
    /\ call.model = GPT4Turbo
    /\ result.input_tokens = 11
    /\ result.input_cost_usd = 1100


(* C22.  A retrieve call that is given top_k = n, n >= 0, asks each index  *)
(* for n * 2 candidates and returns at most n documents; the default       *)
(* top_k of the retriever is used only when no top_k is given.             *)
C22_TopKOfCaller ==
    (pc = "returned" /\ IsCall("retrieve") /\ outcome = "ok"
        /\ call.top_k # <<>>) =>
        LET n == call.top_k[1]
            dense == dense_search(State, call.query_embedding, n * 2)
            sparse_results == sparse_search(State, call.query, n * 2)
        IN /\ Len(result.documents) <= n
           /\ result.documents =
                  reciprocal_rank_fusion(State, dense_weight, sparse_weight,
                                         rrf_k, dense.results,
                                         sparse_results, n)


(* C23.  validate_request, for a request with a user_id, raises            *)
(* CostLimitExceededError when the requests recorded for that user in the  *)
(* last hour have reached max_requests_per_user_hourly, when the cost      *)
(* recorded for the user in the last hour (day) plus the estimate is over  *)
(* max_cost_per_user_hourly_usd (max_cost_per_user_daily_usd), and when    *)
(* the cost recorded in the day plus the estimate is over                  *)
(* max_cost_daily_usd.                                                     *)

CostOf(records) ==
    SeqSum([i \in DOMAIN records |-> records[i].actual_cost_usd])

OverUserLimits(user_id, estimate) ==
    LET hour == RecordsMade(user_id, 1)
        day == RecordsMade(user_id, 24)
    IN \/ Len(hour) >= cost_config.max_requests_per_user_hourly
       \/ CostOf(hour) + estimate.total_cost_usd
              > cost_config.max_cost_per_user_hourly_usd
       \/ CostOf(day) + estimate.total_cost_usd
              > cost_config.max_cost_per_user_daily_usd
       \/ CostOf(RecordsMade(<<>>, 24)) + estimate.total_cost_usd
              > cost_config.max_cost_daily_usd

C23_UserLimits ==
    (pc = "returned" /\ IsCall("validate_request") /\ call.user_id # <<>>
        /\ OverUserLimits(call.user_id, call.estimate)) =>
        outcome = "CostLimitExceededError"


(* C24.  With hash chaining enabled, the store holds every logged event    *)
(* once, in the order of creation: a log call appends its event to the     *)
(* stored ones, no other operation changes them, the first stored event    *)
(* has previous_hash None and every later one the event_hash of the event  *)
(* stored just before it, and verify_integrity over the whole log returns  *)
(* (True, []).                                                             *)

Chained(events) ==
    \A i \in DOMAIN events :
        events[i].previous_hash = IF i = 1 THEN None
                                  ELSE events[i - 1].event_hash

StoredOnce(events) ==
    \A i, j \in DOMAIN events :
        events[i].event_id = events[j].event_id => i = j

C24_HashChain ==
    [][enable_hash_chain =>
          /\ Chained(store_events') /\ StoredOnce(store_events')
          /\ buffer' = <<>>
          /\ IF AddReturned /\ call'.op = "log"
             THEN store_events' = Append(store_events, result')
             ELSE store_events' = store_events
          /\ (AddReturned /\ call'.op = "verify_integrity"
                 /\ call'.start_time = 0) =>
                result' = <<TRUE, <<>>>>]_vars

\* verify_integrity has returned (True, []) over a log of two events that
\* two tasks have logged an hour apart
C24_Witness ==
    /\ enable_hash_chain
    /\ pc = "returned"
    /\ IsCall("verify_integrity")
    /\ call.start_time = 0
    /\ Len(store_events) = 2
    /\ store_events[1].actor_id = <<"t2">>
    /\ store_events[2].actor_id = <<"t1">>
    /\ store_events[1].timestamp < store_events[2].timestamp
    /\ store_events[2].previous_hash = store_events[1].event_hash
    /\ result = <<TRUE, <<>>>>


(* C25.  The detections that the de-duplication returns do not overlap     *)
(* one another, and of two overlapping candidates of which one is kept     *)
(* and one dropped, the kept one has a confidence at least as high as the  *)
(* dropped one.                                                            *)

Overlap(d, e) == d.start < e.end /\ e.start < d.end

ConfidenceLevel(d) ==
    CASE d.confidence = "low" -> 0
      [] d.confidence = "medium" -> 1
      [] d.confidence = "high" -> 2

Elements(list) == {list[i] : i \in DOMAIN list}

C25_Deduplicate ==
    (pc = "returned" /\ IsCall("deduplicate")) =>
        /\ \A i, j \in DOMAIN result :
               i # j => ~Overlap(result[i], result[j])
        /\ \A kept \in Elements(result),
              dropped \in Elements(call.detections) \ Elements(result) :
               Overlap(kept, dropped) =>
                   ConfidenceLevel(kept) >= ConfidenceLevel(dropped)


(* C26.  The fused ranking depends on the order of the ids in the two      *)
(* candidate lists only: a fusion call on lists of the same ids in the     *)
(* same order with other source scores returns the same ids, in the same   *)
(* order, with the same fused scores.                                      *)

\* the same candidates with the source scores 0, 0, ... and with the
\* source scores 1, 2, ... (ascending, against the order of the list)
OtherScores(results) ==
    {[i \in DOMAIN results |-> <<results[i][1], Frac(0, 1)>>],
     [i \in DOMAIN results |-> <<results[i][1], Frac(i, 1)>>]}

FusedOf(results) ==
    [i \in DOMAIN results |-> <<results[i].id, results[i].score>>]

FusionCall == pc = "returned" /\ "dense_results" \in DOMAIN call

C26_ScoresIgnored ==
    FusionCall =>
        \A dense_results \in OtherScores(call.dense_results),
           sparse_results \in OtherScores(call.sparse_results) :
            FusedOf(reciprocal_rank_fusion(
                        State, dense_weight, sparse_weight, rrf_k,
                        dense_results, sparse_results, call.top_k))
                = FusedOf(result)

\* a fusion of two lists of two candidates each, with source scores that
\* differ from the other scores, has returned the two documents
C26_Witness ==
    /\ FusionCall
    /\ call.dense_results = DenseList(<<"a", "b">>)
    /\ call.sparse_results = SparseList(<<"b", "c">>)
    /\ call.dense_results \notin OtherScores(call.dense_results)
    /\ call.sparse_results \notin OtherScores(call.sparse_results)
    /\ call.top_k = 2
    /\ FusedOf(result)[1][1] = "b"
    /\ Len(result) = 2


(* C27.  embed_texts returns one embedding for each text, in the order of  *)
(* the texts: row i of the result is the embedding of texts[i], whichever  *)
(* of the texts are in the cache.                                          *)
C27_RowsInInputOrder ==
    (pc = "returned" /\ IsCall("embed_texts")) =>
        /\ Len(result) = Len(call.texts)
        /\ \A i \in DOMAIN call.texts :
               result[i] = model_embedding(call.texts[i])


(* C28.  After any sequence of add_documents calls, sparse search does not *)
(* divide by an average length of 0: when a term of the query is in the    *)
(* IDF table, avg_doc_length is positive, and every BM25 score that is     *)
(* returned is a number.                                                   *)
C28_AverageLengthPositive ==
    (pc = "returned" /\ IsCall("sparse_search")) =>
        /\ (\E j \in DOMAIN tokenize(call.query) :
                tokenize(call.query)[j] \in DOMAIN idf) =>
              FracLess(<<0, 1>>, avg_doc_length)
        /\ \A i \in DOMAIN result : result[i][2] # NaN


(* C29.  Between operations, also after an add_documents call that has     *)
(* raised part-way, the document store, the metadata map, the vector       *)
(* index, the document-length map and the term-frequency map have the same *)
(* set of document ids, so that every id that a search returns has a       *)
(* content for the fusion step.                                            *)

KeySet(d) == {d[i][1] : i \in DOMAIN d}

Occurrences(list, x) == Cardinality({i \in DOMAIN list : list[i] = x})

SameRecords(list, other) ==
    /\ Len(list) = Len(other)
    /\ \A i \in DOMAIN list :
           Occurrences(list, list[i]) = Occurrences(other, list[i])

Quiet == \A t \in Writers : threads[t].pc \in {"idle", "lock"}

C30_NoRecordLost ==
    /\ Quiet =>
          LET made == threads["w1"].made \o threads["w2"].made
          IN /\ SameRecords(usage_records, made)
             /\ total_cost_today = CostOf(usage_records)
             /\ \A u \in {"u1"} \cup KeySet(user_usage) :
                    SameRecords(usage_of(user_usage, u),
                                SelectSeq(made,
                                          LAMBDA r : r.user_id = <<u>>))
    /\ obs # NoObs =>
          /\ obs.summary.request_count = obs.calls_made
          /\ obs.calls_made > 0 =>
                 obs.summary.total_cost_usd <= total_cost_today

\* two calls for the same user have returned; the record that was built
\* first was appended last
C30_Witness ==
    /\ Quiet
    /\ Len(threads["w1"].made) = 1
    /\ Len(threads["w2"].made) = 1
    /\ threads["w1"].made[1].user_id = <<"u1">>
    /\ threads["w2"].made[1].user_id = <<"u1">>
    /\ threads["w1"].made[1].timestamp < threads["w2"].made[1].timestamp
    /\ usage_records = threads["w2"].made \o threads["w1"].made
    /\ Len(usage_of(user_usage, "u1")) = 2
    /\ obs # NoObs
    /\ obs.calls_made = 1

====
